---- MODULE Spec2Model ----
(***************************************************************************)
(* A model of terraform-provider-envbuilder: the envbuilder_cached_image   *)
(* resource (Create / Read against a cache registry), the resolution of    *)
(* envbuilder options from the resource configuration and extra_env, and   *)
(* the computed environment.                                               *)
(*                                                                         *)
(* Go strings are sequences of one-character strings, so that prefix       *)
(* tests, substring tests, parsing, joining and byte-wise ordering are     *)
(* computed the way the code computes them.                                *)
(***************************************************************************)
EXTENDS Integers, Sequences, FiniteSets, TLC

VARIABLES
    config,     \* the resource configuration (the plan Create receives)
    state,      \* the Terraform state of the resource, or NoState
    registry,   \* the digests the cache repository currently serves
    diags,      \* resp.Diagnostics of the last Create / Read
    op,         \* what the last operation did: its name, the state it was given,
                \* the outcome of its probe or registry fetch, and whether the
                \* registry served the stored image when it ran
    created,    \* the state persisted by the most recent Create (NoState if none)
    changed,    \* the registry contents changed since the most recent Create
    resolved,   \* result of the last option resolution in SpecResolve
    KanikoDir,  \* kconfig.KanikoDir, the process-wide setting of the kaniko library
    pass,       \* the passes running in the provider process: where each is in
                \* its function, its local oldKanikoDir, and what it returned
    dirs,       \* the directories and files that exist on the file system
    ctxDone,    \* the host has stopped the provider: the context of every pass
                \* is cancelled
    scan        \* the scan of extractEnvbuilderFromImage over an image

vars == <<config, state, registry, diags, op, created, changed, resolved,
          KanikoDir, pass, dirs, ctxDone, scan>>

\* The variables of one resource and its option resolution, and those of the
\* concurrent passes and of the image scan.
resourceVars == <<config, state, registry, diags, op, created, changed, resolved>>
procVars == <<KanikoDir, pass, dirs, ctxDone, scan>>

----------------------------------------------------------------------------
(* Strings                                                                 *)

\* The characters the model uses, in byte order (sort.Strings compares bytes).
Ascii ==
    << "\n", "\r", " ", "\"", "+", ",", "-", ".", "/",
       "0", "1", "2", "3", "4", "5", "6", "7", "8", "9",
       ":", "=", "@",
       "A", "B", "C", "D", "E", "F", "G", "H", "I", "J", "K", "L", "M",
       "N", "O", "P", "Q", "R", "S", "T", "U", "V", "W", "X", "Y", "Z",
       "_",
       "a", "b", "c", "d", "e", "f", "g", "h", "i", "j", "k", "l", "m",
       "n", "o", "p", "q", "r", "s", "t", "u", "v", "w", "x", "y", "z" >>

OrdTable == [c \in {Ascii[i] : i \in 1..Len(Ascii)} |->
                CHOOSE i \in 1..Len(Ascii) : Ascii[i] = c]
Ord(c) == OrdTable[c]

\* strings.HasPrefix
HasPrefix(s, p) == Len(s) >= Len(p) /\ SubSeq(s, 1, Len(p)) = p

\* strings.Contains
Contains(s, sub) ==
    \E i \in 1..(Len(s) - Len(sub) + 1) : SubSeq(s, i, i + Len(sub) - 1) = sub

\* The < of Go strings: byte-wise lexicographic order, decided at the
\* first position where the two differ or one ends.
RECURSIVE StrLessFrom(_, _, _)
StrLessFrom(a, b, i) ==
    IF i > Len(a) THEN i <= Len(b)
    ELSE IF i > Len(b) THEN FALSE
    ELSE IF a[i] = b[i] THEN StrLessFrom(a, b, i + 1)
    ELSE Ord(a[i]) < Ord(b[i])
StrLess(a, b) == StrLessFrom(a, b, 1)

\* strings.Join(ss, sep)
RECURSIVE Join(_, _)
Join(ss, sep) ==
    IF ss = <<>> THEN <<>>
    ELSE IF Len(ss) = 1 THEN ss[1]
    ELSE ss[1] \o sep \o Join(Tail(ss), sep)

\* The fields of s between the separators sep (a single character).
RECURSIVE SplitOn(_, _)
SplitOn(s, sep) ==
    IF \A i \in 1..Len(s) : s[i] # sep THEN <<s>>
    ELSE LET k == CHOOSE i \in 1..Len(s) :
                      s[i] = sep /\ \A j \in 1..(i - 1) : s[j] # sep
         IN  <<SubSeq(s, 1, k - 1)>> \o SplitOn(SubSeq(s, k + 1, Len(s)), sep)

Digits == <<"0", "1", "2", "3", "4", "5", "6", "7", "8", "9">>
IsDigit(c) == \E i \in 1..10 : Digits[i] = c
DigitVal(c) == (CHOOSE i \in 1..10 : Digits[i] = c) - 1

\* The decimal text of a natural number.
RECURSIVE FormatNat(_)
FormatNat(n) ==
    IF n < 10 THEN <<Digits[n + 1]>> ELSE FormatNat(n \div 10) \o <<Digits[(n % 10) + 1]>>

\* An int64 is held as its sign and the decimal digits of its magnitude, the
\* most significant first and none for zero: the integers of TLC are 32 bits
\* wide, and the range of an int64 decides what strconv.ParseInt returns.
Int64(neg, mag) == [neg |-> neg, mag |-> mag]
RECURSIVE DigitsOfNat(_)
DigitsOfNat(n) == IF n = 0 THEN <<>> ELSE DigitsOfNat(n \div 10) \o <<n % 10>>
\* int64(n)
Int64Of(n) == IF n < 0 THEN Int64(TRUE, DigitsOfNat(0 - n)) ELSE Int64(FALSE, DigitsOfNat(n))
\* math.MaxInt64 and math.MinInt64
MaxInt64 == Int64(FALSE, <<9, 2, 2, 3, 3, 7, 2, 0, 3, 6, 8, 5, 4, 7, 7, 5, 8, 0, 7>>)
MinInt64 == Int64(TRUE, <<9, 2, 2, 3, 3, 7, 2, 0, 3, 6, 8, 5, 4, 7, 7, 5, 8, 0, 8>>)
\* The magnitude of math.MaxUint64
MaxUint64 == <<1, 8, 4, 4, 6, 7, 4, 4, 0, 7, 3, 7, 0, 9, 5, 5, 1, 6, 1, 5>>

RECURSIVE StripZeros(_)
StripZeros(ds) == IF ds # <<>> /\ ds[1] = 0 THEN StripZeros(Tail(ds)) ELSE ds

\* a < b, for two magnitudes without leading zeros
MagLess(a, b) ==
    \/ Len(a) < Len(b)
    \/ /\ Len(a) = Len(b)
       /\ \E i \in 1..Len(a) : a[i] < b[i] /\ \A j \in 1..(i - 1) : a[j] = b[j]

\* strconv.FormatInt(n, 10)
FormatInt(n) ==
    IF n.mag = <<>> THEN <<"0">>
    ELSE (IF n.neg THEN <<"-">> ELSE <<>>) \o [i \in 1..Len(n.mag) |-> Digits[n.mag[i] + 1]]

\* strconv.FormatBool
strTrue == <<"t","r","u","e">>
strFalse == <<"f","a","l","s","e">>
FormatBool(b) == IF b THEN strTrue ELSE strFalse

----------------------------------------------------------------------------
(* Terraform attribute values                                              *)

\* A null attribute (types.String{}.IsNull()) and a known one.
Null == [isNull |-> TRUE]
Known(v) == [isNull |-> FALSE, value |-> v]


----------------------------------------------------------------------------
(* Envbuilder options                                                      *)

envbuilderOptionPrefix == <<"E","N","V","B","U","I","L","D","E","R","_">>
WithEnvPrefix(s) == envbuilderOptionPrefix \o s

ENVBUILDER_CACHE_REPO == WithEnvPrefix(<<"C","A","C","H","E","_","R","E","P","O">>)
ENVBUILDER_GIT_URL == WithEnvPrefix(<<"G","I","T","_","U","R","L">>)
ENVBUILDER_VERBOSE == WithEnvPrefix(<<"V","E","R","B","O","S","E">>)
ENVBUILDER_CACHE_TTL_DAYS ==
    WithEnvPrefix(<<"C","A","C","H","E","_","T","T","L","_","D","A","Y","S">>)
ENVBUILDER_IGNORE_PATHS ==
    WithEnvPrefix(<<"I","G","N","O","R","E","_","P","A","T","H","S">>)
ENVBUILDER_GIT_SSH_PRIVATE_KEY_PATH ==
    WithEnvPrefix(<<"G","I","T","_","S","S","H","_","P","R","I","V","A","T","E","_",
                    "K","E","Y","_","P","A","T","H">>)
ENVBUILDER_GIT_SSH_PRIVATE_KEY_BASE64 ==
    WithEnvPrefix(<<"G","I","T","_","S","S","H","_","P","R","I","V","A","T","E","_",
                    "K","E","Y","_","B","A","S","E","6","4">>)
ENVBUILDER_REMOTE_REPO_BUILD_MODE ==
    WithEnvPrefix(<<"R","E","M","O","T","E","_","R","E","P","O","_","B","U","I","L","D",
                    "_","M","O","D","E">>)
ENVBUILDER_PUSH_IMAGE == WithEnvPrefix(<<"P","U","S","H","_","I","M","A","G","E">>)
ENVBUILDER_FORCE_SAFE == WithEnvPrefix(<<"F","O","R","C","E","_","S","A","F","E">>)
ENVBUILDER_GET_CACHED_IMAGE ==
    WithEnvPrefix(<<"G","E","T","_","C","A","C","H","E","D","_","I","M","A","G","E">>)
ENVBUILDER_SETUP_SCRIPT ==
    WithEnvPrefix(<<"S","E","T","U","P","_","S","C","R","I","P","T">>)
ENVBUILDER_INIT_SCRIPT == WithEnvPrefix(<<"I","N","I","T","_","S","C","R","I","P","T">>)
ENVBUILDER_DOCKERFILE_PATH ==
    WithEnvPrefix(<<"D","O","C","K","E","R","F","I","L","E","_","P","A","T","H">>)
CODER_AGENT_TOKEN == <<"C","O","D","E","R","_","A","G","E","N","T","_","T","O","K","E","N">>
CODER_AGENT_URL == <<"C","O","D","E","R","_","A","G","E","N","T","_","U","R","L">>
\* Legacy names: those of git_url and of verbose without the prefix.
GIT_URL == <<"G","I","T","_","U","R","L">>
VERBOSE == <<"V","E","R","B","O","S","E">>
\* Keys that name no option.
ENVBUILDER_SOMETHING == WithEnvPrefix(<<"S","O","M","E","T","H","I","N","G">>)
FOO == <<"F","O","O">>
\* A key that FOO is a proper prefix of, continuing with a character below "=".
FOO2 == <<"F","O","O","2">>

\* The options of eboptions.Options.CLI() that the provider names, in
\* optionsFromDataModel, in runCacheProbe and in its tests, each with its
\* environment name, the field of Options its value points to, and the kind
\* of its serpent value. The names are those of the envbuilder library.
options ==
    << [Env |-> ENVBUILDER_SETUP_SCRIPT,
        Field |-> "SetupScript", Kind |-> "string"],
       [Env |-> ENVBUILDER_INIT_SCRIPT,
        Field |-> "InitScript", Kind |-> "string"],
       [Env |-> WithEnvPrefix(<<"I","N","I","T","_","C","O","M","M","A","N","D">>),
        Field |-> "InitCommand", Kind |-> "string"],
       [Env |-> WithEnvPrefix(<<"I","N","I","T","_","A","R","G","S">>),
        Field |-> "InitArgs", Kind |-> "string"],
       [Env |-> ENVBUILDER_CACHE_REPO,
        Field |-> "CacheRepo", Kind |-> "string"],
       [Env |-> WithEnvPrefix(<<"B","A","S","E","_","I","M","A","G","E","_","C","A","C","H",
                "E","_","D","I","R">>),
        Field |-> "BaseImageCacheDir", Kind |-> "string"],
       [Env |-> WithEnvPrefix(<<"L","A","Y","E","R","_","C","A","C","H","E","_","D","I",
                "R">>),
        Field |-> "LayerCacheDir", Kind |-> "string"],
       [Env |-> WithEnvPrefix(<<"D","E","V","C","O","N","T","A","I","N","E","R","_","D","I",
                "R">>),
        Field |-> "DevcontainerDir", Kind |-> "string"],
       [Env |-> WithEnvPrefix(<<"D","E","V","C","O","N","T","A","I","N","E","R","_","J","S",
                "O","N","_","P","A","T","H">>),
        Field |-> "DevcontainerJSONPath", Kind |-> "string"],
       [Env |-> ENVBUILDER_DOCKERFILE_PATH,
        Field |-> "DockerfilePath", Kind |-> "string"],
       [Env |-> WithEnvPrefix(<<"B","U","I","L","D","_","C","O","N","T","E","X","T","_","P",
                "A","T","H">>),
        Field |-> "BuildContextPath", Kind |-> "string"],
       [Env |-> ENVBUILDER_CACHE_TTL_DAYS,
        Field |-> "CacheTTLDays", Kind |-> "int"],
       [Env |-> WithEnvPrefix(<<"D","O","C","K","E","R","_","C","O","N","F","I","G","_","B",
                "A","S","E","6","4">>),
        Field |-> "DockerConfigBase64", Kind |-> "string"],
       [Env |-> WithEnvPrefix(<<"F","A","L","L","B","A","C","K","_","I","M","A","G","E">>),
        Field |-> "FallbackImage", Kind |-> "string"],
       [Env |-> WithEnvPrefix(<<"E","X","I","T","_","O","N","_","B","U","I","L","D","_","F",
                "A","I","L","U","R","E">>),
        Field |-> "ExitOnBuildFailure", Kind |-> "bool"],
       [Env |-> ENVBUILDER_FORCE_SAFE,
        Field |-> "ForceSafe", Kind |-> "bool"],
       [Env |-> WithEnvPrefix(<<"I","N","S","E","C","U","R","E">>),
        Field |-> "Insecure", Kind |-> "bool"],
       [Env |-> ENVBUILDER_IGNORE_PATHS,
        Field |-> "IgnorePaths", Kind |-> "string-array"],
       [Env |-> WithEnvPrefix(<<"B","U","I","L","D","_","S","E","C","R","E","T","S">>),
        Field |-> "BuildSecrets", Kind |-> "string-array"],
       [Env |-> WithEnvPrefix(<<"S","K","I","P","_","R","E","B","U","I","L","D">>),
        Field |-> "SkipRebuild", Kind |-> "bool"],
       [Env |-> ENVBUILDER_GIT_URL,
        Field |-> "GitURL", Kind |-> "string"],
       [Env |-> WithEnvPrefix(<<"G","I","T","_","C","L","O","N","E","_","D","E","P","T",
                "H">>),
        Field |-> "GitCloneDepth", Kind |-> "int"],
       [Env |-> WithEnvPrefix(<<"G","I","T","_","C","L","O","N","E","_","S","I","N","G","L",
                "E","_","B","R","A","N","C","H">>),
        Field |-> "GitCloneSingleBranch", Kind |-> "bool"],
       [Env |-> WithEnvPrefix(<<"G","I","T","_","U","S","E","R","N","A","M","E">>),
        Field |-> "GitUsername", Kind |-> "string"],
       [Env |-> WithEnvPrefix(<<"G","I","T","_","P","A","S","S","W","O","R","D">>),
        Field |-> "GitPassword", Kind |-> "string"],
       [Env |-> ENVBUILDER_GIT_SSH_PRIVATE_KEY_PATH,
        Field |-> "GitSSHPrivateKeyPath", Kind |-> "string"],
       [Env |-> ENVBUILDER_GIT_SSH_PRIVATE_KEY_BASE64,
        Field |-> "GitSSHPrivateKeyBase64", Kind |-> "string"],
       [Env |-> WithEnvPrefix(<<"G","I","T","_","H","T","T","P","_","P","R","O","X","Y","_",
                "U","R","L">>),
        Field |-> "GitHTTPProxyURL", Kind |-> "string"],
       [Env |-> WithEnvPrefix(<<"W","O","R","K","S","P","A","C","E","_","F","O","L","D","E",
                "R">>),
        Field |-> "WorkspaceFolder", Kind |-> "string"],
       [Env |-> WithEnvPrefix(<<"S","S","L","_","C","E","R","T","_","B","A","S","E","6",
                "4">>),
        Field |-> "SSLCertBase64", Kind |-> "string"],
       [Env |-> WithEnvPrefix(<<"E","X","P","O","R","T","_","E","N","V","_","F","I","L",
                "E">>),
        Field |-> "ExportEnvFile", Kind |-> "string"],
       [Env |-> WithEnvPrefix(<<"P","O","S","T","_","S","T","A","R","T","_","S","C","R","I",
                "P","T","_","P","A","T","H">>),
        Field |-> "PostStartScriptPath", Kind |-> "string"],
       [Env |-> CODER_AGENT_URL,
        Field |-> "CoderAgentURL", Kind |-> "string"],
       [Env |-> CODER_AGENT_TOKEN,
        Field |-> "CoderAgentToken", Kind |-> "string"],
       [Env |-> <<"C","O","D","E","R","_","A","G","E","N","T","_","S","U","B","S","Y","S",
                "T","E","M">>,
        Field |-> "CoderAgentSubsystem", Kind |-> "string-array"],
       [Env |-> ENVBUILDER_PUSH_IMAGE,
        Field |-> "PushImage", Kind |-> "bool"],
       [Env |-> ENVBUILDER_GET_CACHED_IMAGE,
        Field |-> "GetCachedImage", Kind |-> "bool"],
       [Env |-> WithEnvPrefix(<<"B","I","N","A","R","Y","_","P","A","T","H">>),
        Field |-> "BinaryPath", Kind |-> "string"],
       [Env |-> ENVBUILDER_REMOTE_REPO_BUILD_MODE,
        Field |-> "RemoteRepoBuildMode", Kind |-> "bool"],
       [Env |-> WithEnvPrefix(<<"R","E","M","O","T","E","_","R","E","P","O","_","D","I",
                "R">>),
        Field |-> "RemoteRepoDir", Kind |-> "string"],
       [Env |-> ENVBUILDER_VERBOSE,
        Field |-> "Verbose", Kind |-> "bool"] >>

\* envbuilder's supportLegacyEnvWithoutPrefixes: every option named
\* ENVBUILDER_... is there a second time under the name without the prefix,
\* the two sharing one value. These are the legacy options that
\* computeEnvFromOptions speaks of.
IsPrefixed(o) == HasPrefix(o.Env, envbuilderOptionPrefix)
legacyOption(o) ==
    [o EXCEPT !.Env = SubSeq(@, Len(envbuilderOptionPrefix) + 1, Len(@))]
supportLegacyEnvWithoutPrefixes(os) ==
    os \o [i \in 1..Len(SelectSeq(os, IsPrefixed)) |-> legacyOption(SelectSeq(os, IsPrefixed)[i])]

\* opts.CLI()
CLI == supportLegacyEnvWithoutPrefixes(options)

OptionEnvs == {CLI[i].Env : i \in 1..Len(CLI)}
OptionOf(env) == CLI[CHOOSE i \in 1..Len(CLI) : CLI[i].Env = env]

\* The zero value of a serpent value kind.
ZeroOf(kind) ==
    CASE kind = "string" -> <<>>
      [] kind = "bool" -> FALSE
      [] kind = "int" -> Int64Of(0)
      [] kind = "string-array" -> <<>>

\* var opts eboptions.Options
ZeroOptions == [f \in {CLI[i].Field : i \in 1..Len(CLI)} |->
                   ZeroOf((CLI[CHOOSE i \in 1..Len(CLI) : CLI[i].Field = f]).Kind)]

\* strconv.ParseBool
ParseBoolOK(s) ==
    s \in { <<"1">>, <<"t">>, <<"T">>, <<"T","R","U","E">>, strTrue, <<"T","r","u","e">>,
            <<"0">>, <<"f">>, <<"F">>, <<"F","A","L","S","E">>, strFalse,
            <<"F","a","l","s","e">> }
ParseBool(s) ==
    s \in { <<"1">>, <<"t">>, <<"T">>, <<"T","R","U","E">>, strTrue, <<"T","r","u","e">> }

\* strconv.ParseInt(s, 10, 64): an optional sign, then strconv.ParseUint on
\* the rest, which reads it byte by byte. A byte that is no decimal digit, or
\* no byte at all, is a syntax error and the result is 0; digits that exceed
\* a uint64 are a range error at the digit that does so, the bytes after it
\* unread. A value outside the range of an int64 is a range error and the
\* result is the nearest bound.
ParseIntNeg(s) == s # <<>> /\ s[1] = "-"
ParseIntBody(s) == IF s # <<>> /\ s[1] \in {"+", "-"} THEN Tail(s) ELSE s
\* The digits of the body before its first byte that is no digit.
ParseIntDigits(s) ==
    LET b == ParseIntBody(s)
        n == IF \A i \in 1..Len(b) : IsDigit(b[i]) THEN Len(b)
             ELSE (CHOOSE i \in 1..Len(b) :
                      ~IsDigit(b[i]) /\ \A j \in 1..(i - 1) : IsDigit(b[j])) - 1
    IN  SubSeq(b, 1, n)
ParseIntMag(s) ==
    StripZeros([i \in 1..Len(ParseIntDigits(s)) |-> DigitVal(ParseIntDigits(s)[i])])
\* ParseUint returns ErrRange: the digits read exceed math.MaxUint64.
ParseUintOverflows(s) == MagLess(MaxUint64, ParseIntMag(s))
\* The error of ParseInt, if any, is not ErrSyntax.
ParseIntSyntaxOK(s) ==
    /\ ParseIntBody(s) # <<>>
    /\ ParseIntDigits(s) = ParseIntBody(s) \/ ParseUintOverflows(s)
ParseIntInRange(s) ==
    IF ParseIntNeg(s) THEN ~MagLess(MinInt64.mag, ParseIntMag(s))
    ELSE ~MagLess(MaxInt64.mag, ParseIntMag(s))
ParseIntOK(s) == ParseIntSyntaxOK(s) /\ ParseIntInRange(s)
ParseInt(s) ==
    IF ~ParseIntSyntaxOK(s) THEN Int64Of(0)
    ELSE IF ~ParseIntInRange(s) THEN (IF ParseIntNeg(s) THEN MinInt64 ELSE MaxInt64)
    ELSE Int64(ParseIntNeg(s) /\ ParseIntMag(s) # <<>>, ParseIntMag(s))

\* The position of the first c in s, 0 when there is none.
IndexOf(s, c) ==
    IF \E i \in 1..Len(s) : s[i] = c
    THEN CHOOSE i \in 1..Len(s) : s[i] = c /\ \A j \in 1..(i - 1) : s[j] # c
    ELSE 0

\* encoding/csv, Reader.readLine on the text not yet read: the line with its
\* newline, a "\r\n" at its end made "\n" and a "\r" at the end of the text
\* dropped; the text after it; and whether it returned io.EOF.
readLine(text) ==
    IF text = <<>> THEN [line |-> <<>>, rest |-> <<>>, eof |-> TRUE]
    ELSE IF IndexOf(text, "\n") > 0
    THEN LET k == IndexOf(text, "\n")
         IN  [line |-> IF k >= 2 /\ text[k - 1] = "\r"
                       THEN SubSeq(text, 1, k - 2) \o <<"\n">>
                       ELSE SubSeq(text, 1, k),
              rest |-> SubSeq(text, k + 1, Len(text)), eof |-> FALSE]
    ELSE [line |-> IF text[Len(text)] = "\r" THEN SubSeq(text, 1, Len(text) - 1)
                   ELSE text,
          rest |-> <<>>, eof |-> FALSE]

\* encoding/csv, lengthNL: 1 when the line ends with a newline.
lengthNL(b) == IF b # <<>> /\ b[Len(b)] = "\n" THEN 1 ELSE 0

\* Reader.Read has returned an error: io.EOF, ErrBareQuote or ErrQuote.
csvError == [ok |-> FALSE, record |-> <<>>]

\* encoding/csv, the loop parseField of Reader.readRecord: the fields of the
\* record that starts on line, fields being those already parsed. A field
\* that begins with a quote runs to its closing quote, over line ends, "" in
\* it standing for a quote; any other field ends at the next comma or at the
\* end of the line and must hold no quote.
RECURSIVE parseField(_, _, _)
RECURSIVE quotedField(_, _, _, _)
parseField(line, rest, fields) ==
    IF line = <<>> \/ line[1] # "\""
    THEN LET i == IndexOf(line, ",")
             field == IF i > 0 THEN SubSeq(line, 1, i - 1)
                      ELSE SubSeq(line, 1, Len(line) - lengthNL(line))
         IN  IF IndexOf(field, "\"") > 0 THEN csvError   \* ErrBareQuote
             ELSE IF i > 0
             THEN parseField(SubSeq(line, i + 1, Len(line)), rest, Append(fields, field))
             ELSE [ok |-> TRUE, record |-> Append(fields, field)]
    ELSE quotedField(Tail(line), rest, fields, <<>>)
quotedField(line, rest, fields, buf) ==
    LET i == IndexOf(line, "\"")
        got == buf \o SubSeq(line, 1, i - 1)
        after == SubSeq(line, i + 1, Len(line))
    IN  IF i > 0
        THEN IF after # <<>> /\ after[1] = "\""
             THEN quotedField(Tail(after), rest, fields, Append(got, "\""))
             ELSE IF after # <<>> /\ after[1] = ","
             THEN parseField(Tail(after), rest, Append(fields, got))
             ELSE IF lengthNL(after) = Len(after)
             THEN [ok |-> TRUE, record |-> Append(fields, got)]
             ELSE csvError   \* ErrQuote: text after the closing quote
        ELSE IF line # <<>>
        THEN quotedField(readLine(rest).line, readLine(rest).rest, fields, buf \o line)
        ELSE csvError   \* ErrQuote: the text ends inside the quotes

\* encoding/csv, Reader.readRecord on a new reader: empty lines are skipped,
\* and a text without a record is io.EOF.
RECURSIVE readRecord(_)
readRecord(text) ==
    IF readLine(text).eof THEN csvError
    ELSE IF Len(readLine(text).line) = lengthNL(readLine(text).line)
    THEN readRecord(readLine(text).rest)
    ELSE parseField(readLine(text).line, readLine(text).rest, <<>>)

\* serpent's readAsCSV: csv.NewReader(strings.NewReader(s)).Read(), the first
\* record of the text; whether it returned no error, and the record.
ReadAsCSVOK(s) == readRecord(s).ok
ReadAsCSV(s) == readRecord(s).record

\* pflag.Value.Set of a serpent value of the given kind holding cur:
\* the new value, and whether Set returned an error.
\*   String.Set       stores the text;
\*   Bool.Set         "" is false; otherwise stores strconv.ParseBool's result,
\*                    which is false when it fails;
\*   Int64.Set        stores strconv.ParseInt's result, also when it fails;
\*   StringArray.Set  "" empties the list; otherwise appends the parsed
\*                    fields, leaving the list alone when parsing fails.
SetValue(kind, cur, s) ==
    CASE kind = "string" -> [value |-> s, err |-> FALSE]
      [] kind = "bool" ->
            IF s = <<>> THEN [value |-> FALSE, err |-> FALSE]
            ELSE [value |-> ParseBool(s), err |-> ~ParseBoolOK(s)]
      [] kind = "int" -> [value |-> ParseInt(s), err |-> ~ParseIntOK(s)]
      [] kind = "string-array" ->
            IF s = <<>> THEN [value |-> <<>>, err |-> FALSE]
            ELSE IF ReadAsCSVOK(s) THEN [value |-> cur \o ReadAsCSV(s), err |-> FALSE]
            ELSE [value |-> cur, err |-> TRUE]

\* The text computeEnvFromOptions takes for an option's value:
\* strings.Join(sa.GetSlice(), ",") for a string array, opt.Value.String() otherwise.
ValueString(kind, v) ==
    CASE kind = "string" -> v
      [] kind = "bool" -> FormatBool(v)
      [] kind = "int" -> FormatInt(v)
      [] kind = "string-array" -> Join(v, <<",">>)

----------------------------------------------------------------------------
(* Diagnostics                                                             *)

Warning(summary, key) == [severity |-> "warning", summary |-> summary, key |-> key]
Error(summary, key) == [severity |-> "error", summary |-> summary, key |-> key]

\* diag.Diagnostics.WarningsCount / ErrorsCount / HasError
WarningsCount(ds) == Cardinality({i \in 1..Len(ds) : ds[i].severity = "warning"})
ErrorsCount(ds) == Cardinality({i \in 1..Len(ds) : ds[i].severity = "error"})
HasError(ds) == \E i \in 1..Len(ds) : ds[i].severity = "error"

----------------------------------------------------------------------------
(* Option resolution: helpers.go                                           *)

\* nonOverrideOptions are options that cannot be overridden by extra_env.
nonOverrideOptions == {ENVBUILDER_CACHE_REPO, ENVBUILDER_GIT_URL}

\* The orders in which a range over a Go map with these keys can visit them.
Orders(keys) ==
    {o \in [1..Cardinality(keys) -> keys] : \A i, j \in DOMAIN o : i # j => o[i] # o[j]}

\* The end of one iteration: opt.Set(val) has returned set.
afterSet(acc, opt, key, set) ==
    [opts |-> [acc.opts EXCEPT ![opt.Field] = set.value],
     diags |-> IF set.err
               THEN Append(acc.diags, Error("Invalid value for environment variable", key))
               ELSE acc.diags]

\* A string slice appends on Set: it is set to empty first.
resetStringArray(acc, opt) ==
    IF opt.Kind = "string-array"
    THEN [acc EXCEPT !.opts[opt.Field] = SetValue(opt.Kind, @, <<>>).value]
    ELSE acc

\* opt.Set(val) on the options of acc.
setOption(acc, opt, key, val) ==
    afterSet(acc, opt, key, SetValue(opt.Kind, acc.opts[opt.Field], val))

\* The warning for an option that was set on the provider data model.
warnProviderOpt(acc, key, providerOpts) ==
    IF key \in providerOpts
    THEN [acc EXCEPT !.diags =
             Append(@, Warning("Overriding provider environment variable", key))]
    ELSE acc

\* An override loop that warns about a key that names no option.
overrideOne_WarnsUnknown(acc, key, val, providerOpts) ==
    IF key \notin OptionEnvs THEN
        [acc EXCEPT !.diags = Append(@, Warning("Unknown environment variable", key))]
    ELSE IF key \in nonOverrideOptions THEN
        [acc EXCEPT !.diags =
            Append(@, Warning("Cannot override required environment variable", key))]
    ELSE
        setOption(resetStringArray(warnProviderOpt(acc, key, providerOpts), OptionOf(key)),
                  OptionOf(key), key, val)

\* One iteration of the loop of overrideOptionsFromExtraEnv, for the entry
\* key = val; acc holds opts and the diagnostics so far.
overrideOne(acc, key, val, providerOpts) ==
    IF key \notin OptionEnvs THEN acc   \* ignore unknown keys
    ELSE IF key \in nonOverrideOptions THEN
        [acc EXCEPT !.diags =
            Append(@, Warning("Cannot override required environment variable", key))]
    ELSE
        setOption(resetStringArray(warnProviderOpt(acc, key, providerOpts), OptionOf(key)),
                  OptionOf(key), key, val)

RECURSIVE overrideLoop(_, _, _, _)
overrideLoop(acc, extraEnv, providerOpts, order) ==
    IF order = <<>> THEN acc
    ELSE overrideLoop(overrideOne(acc, order[1], extraEnv[order[1]], providerOpts),
                      extraEnv, providerOpts, Tail(order))

\* overrideOptionsFromExtraEnv(&opts, extraEnv, providerOpts), the range over
\* extraEnv visiting its keys in the given order: opts afterwards, and the
\* diagnostics returned.
overrideOptionsFromExtraEnv(opts, extraEnv, providerOpts, order) ==
    overrideLoop([opts |-> opts, diags |-> <<>>], extraEnv, providerOpts, order)

\* The "key=value" text of one entry of the map.
KeyValue(m, k) == k \o <<"=">> \o m[k]

\* sort.Strings(pairs), over the pairs of the given keys: the least pair
\* first, then the others sorted.
RECURSIVE SortedPairs(_, _)
SortedPairs(m, keys) ==
    IF keys = {} THEN <<>>
    ELSE LET k == CHOOSE x \in keys :
                      \A y \in keys : ~StrLess(KeyValue(m, y), KeyValue(m, x))
         IN  <<KeyValue(m, k)>> \o SortedPairs(m, keys \ {k})

\* tfutil.DockerEnv(m): the "key=value" pairs of the map, sorted.
DockerEnv(m) == SortedPairs(m, DOMAIN m)

\* The optional attributes of the data model that optionsFromDataModel copies
\* into an option when they are not null, in its order: the attribute, the
\* key it records in providerOpts and the field of Options it assigns.
Attributes ==
    << [Attr |-> "base_image_cache_dir", Env |-> WithEnvPrefix(<<"B","A","S","E","_","I",
                "M","A","G","E","_","C","A","C","H","E","_","D","I","R">>),
        Field |-> "BaseImageCacheDir"],
       [Attr |-> "build_context_path", Env |-> WithEnvPrefix(<<"B","U","I","L","D","_","C",
                "O","N","T","E","X","T","_","P","A","T","H">>),
        Field |-> "BuildContextPath"],
       [Attr |-> "build_secrets", Env |-> WithEnvPrefix(<<"B","U","I","L","D","_","S","E",
                "C","R","E","T","S">>),
        Field |-> "BuildSecrets"],
       [Attr |-> "cache_ttl_days", Env |-> ENVBUILDER_CACHE_TTL_DAYS,
        Field |-> "CacheTTLDays"],
       [Attr |-> "devcontainer_dir", Env |-> WithEnvPrefix(<<"D","E","V","C","O","N","T",
                "A","I","N","E","R","_","D","I","R">>),
        Field |-> "DevcontainerDir"],
       [Attr |-> "devcontainer_json_path", Env |-> WithEnvPrefix(<<"D","E","V","C","O","N",
                "T","A","I","N","E","R","_","J","S","O","N","_","P","A","T","H">>),
        Field |-> "DevcontainerJSONPath"],
       [Attr |-> "dockerfile_path", Env |-> ENVBUILDER_DOCKERFILE_PATH,
        Field |-> "DockerfilePath"],
       [Attr |-> "docker_config_base64", Env |-> WithEnvPrefix(<<"D","O","C","K","E","R",
                "_","C","O","N","F","I","G","_","B","A","S","E","6","4">>),
        Field |-> "DockerConfigBase64"],
       [Attr |-> "exit_on_build_failure", Env |-> WithEnvPrefix(<<"E","X","I","T","_","O",
                "N","_","B","U","I","L","D","_","F","A","I","L","U","R","E">>),
        Field |-> "ExitOnBuildFailure"],
       [Attr |-> "fallback_image", Env |-> WithEnvPrefix(<<"F","A","L","L","B","A","C","K",
                "_","I","M","A","G","E">>),
        Field |-> "FallbackImage"],
       [Attr |-> "git_clone_depth", Env |-> WithEnvPrefix(<<"G","I","T","_","C","L","O","N",
                "E","_","D","E","P","T","H">>),
        Field |-> "GitCloneDepth"],
       [Attr |-> "git_clone_single_branch", Env |-> WithEnvPrefix(<<"G","I","T","_","C","L",
                "O","N","E","_","S","I","N","G","L","E","_","B","R","A","N","C","H">>),
        Field |-> "GitCloneSingleBranch"],
       [Attr |-> "git_http_proxy_url", Env |-> WithEnvPrefix(<<"G","I","T","_","H","T","T",
                "P","_","P","R","O","X","Y","_","U","R","L">>),
        Field |-> "GitHTTPProxyURL"],
       [Attr |-> "git_ssh_private_key_path", Env |-> ENVBUILDER_GIT_SSH_PRIVATE_KEY_PATH,
        Field |-> "GitSSHPrivateKeyPath"],
       [Attr |-> "git_ssh_private_key_base64", Env |-> 
                ENVBUILDER_GIT_SSH_PRIVATE_KEY_BASE64,
        Field |-> "GitSSHPrivateKeyBase64"],
       [Attr |-> "git_username", Env |-> WithEnvPrefix(<<"G","I","T","_","U","S","E","R",
                "N","A","M","E">>),
        Field |-> "GitUsername"],
       [Attr |-> "git_password", Env |-> WithEnvPrefix(<<"G","I","T","_","P","A","S","S",
                "W","O","R","D">>),
        Field |-> "GitPassword"],
       [Attr |-> "ignore_paths", Env |-> ENVBUILDER_IGNORE_PATHS,
        Field |-> "IgnorePaths"],
       [Attr |-> "insecure", Env |-> WithEnvPrefix(<<"I","N","S","E","C","U","R","E">>),
        Field |-> "Insecure"],
       [Attr |-> "remote_repo_build_mode", Env |-> ENVBUILDER_REMOTE_REPO_BUILD_MODE,
        Field |-> "RemoteRepoBuildMode"],
       [Attr |-> "ssl_cert_base64", Env |-> WithEnvPrefix(<<"S","S","L","_","C","E","R","T",
                "_","B","A","S","E","6","4">>),
        Field |-> "SSLCertBase64"],
       [Attr |-> "verbose", Env |-> ENVBUILDER_VERBOSE,
        Field |-> "Verbose"],
       [Attr |-> "workspace_folder", Env |-> WithEnvPrefix(<<"W","O","R","K","S","P","A",
                "C","E","_","F","O","L","D","E","R">>),
        Field |-> "WorkspaceFolder"] >>
AttributeNames == {Attributes[i].Attr : i \in 1..Len(Attributes)}
AttributeOf(field) == Attributes[CHOOSE i \in 1..Len(Attributes) : Attributes[i].Field = field]

\* The value an option takes from its attribute: build_secrets is a map, and
\* the option is the sorted list of its "key=value" pairs.
attributeValue(attr, v) ==
    IF attr = "build_secrets" THEN SortedPairs(v, DOMAIN v) ELSE v

\* The options optionsFromDataModel sets from the attributes of the data
\* model before it looks at extra_env.
optionsFromAttributes(data) ==
    [f \in DOMAIN ZeroOptions |->
        IF f = "CacheRepo" THEN data.cache_repo
        ELSE IF f = "GitURL" THEN data.git_url
        ELSE IF \E i \in 1..Len(Attributes) : Attributes[i].Field = f
        THEN IF ~data[AttributeOf(f).Attr].isNull
             THEN attributeValue(AttributeOf(f).Attr, data[AttributeOf(f).Attr].value)
             \* the default is true unless the attribute is set
             ELSE IF f = "RemoteRepoBuildMode" THEN TRUE
             ELSE ZeroOptions[f]
        ELSE ZeroOptions[f]]

\* A providerOpts that counts the default of remote_repo_build_mode as set.
providerOptsOf_CountsDefault(data) ==
    {ENVBUILDER_REMOTE_REPO_BUILD_MODE}
    \cup {Attributes[i].Env : i \in {j \in 1..Len(Attributes) : ~data[Attributes[j].Attr].isNull}}

\* providerOpts: the options set from the data model.
providerOptsOf(data) ==
    {Attributes[i].Env : i \in {j \in 1..Len(Attributes) : ~data[Attributes[j].Attr].isNull}}

\* An option resolution that accepts both git ssh private key options.
checkSSHKeyOptions_Never(r) == r

\* The check optionsFromDataModel ends with: at most one git ssh private key option.
checkSSHKeyOptions(r) ==
    IF r.opts["GitSSHPrivateKeyPath"] # <<>> /\ r.opts["GitSSHPrivateKeyBase64"] # <<>>
    THEN [r EXCEPT !.diags =
             Append(@, Error("Cannot set more than one git ssh private key option", <<>>))]
    ELSE r

\* optionsFromDataModel(data): the options and the diagnostics.
optionsFromDataModel(data, order) ==
    checkSSHKeyOptions(
        overrideOptionsFromExtraEnv(optionsFromAttributes(data), data.extra_env,
                                    providerOptsOf(data), order))

\* A computed environment that copies every entry of extra_env.
computeEnvFromOptions_PassAll(opts, extraEnv) ==
    LET fromOpts == {i \in 1..Len(CLI) :
                        /\ CLI[i].Env # <<>>
                        /\ HasPrefix(CLI[i].Env, envbuilderOptionPrefix)
                        /\ ValueString(CLI[i].Kind, opts[CLI[i].Field])
                              \notin {<<>>, strFalse, <<"0">>}}
    IN  [k \in {CLI[i].Env : i \in fromOpts} \cup DOMAIN extraEnv |->
            IF k \in DOMAIN extraEnv THEN extraEnv[k]
            ELSE ValueString(OptionOf(k).Kind, opts[OptionOf(k).Field])]

\* A computed environment that leaves out the entries of extra_env.
computeEnvFromOptions_NoPassThrough(opts, extraEnv) ==
    LET fromOpts == {i \in 1..Len(CLI) :
                        /\ CLI[i].Env # <<>>
                        /\ HasPrefix(CLI[i].Env, envbuilderOptionPrefix)
                        /\ ValueString(CLI[i].Kind, opts[CLI[i].Field])
                              \notin {<<>>, strFalse, <<"0">>}}
    IN  [k \in {CLI[i].Env : i \in fromOpts} |->
            ValueString(OptionOf(k).Kind, opts[OptionOf(k).Field])]

\* computeEnvFromOptions(opts, extraEnv): the computed environment, a map.
computeEnvFromOptions(opts, extraEnv) ==
    LET fromOpts == {i \in 1..Len(CLI) :
                        /\ CLI[i].Env # <<>>
                        /\ HasPrefix(CLI[i].Env, envbuilderOptionPrefix)
                        /\ ValueString(CLI[i].Kind, opts[CLI[i].Field])
                              \notin {<<>>, strFalse, <<"0">>}}
        passed == {k \in DOMAIN extraEnv : ~HasPrefix(k, envbuilderOptionPrefix)}
    IN  [k \in {CLI[i].Env : i \in fromOpts} \cup passed |->
            IF k \in passed THEN extraEnv[k]
            ELSE ValueString(OptionOf(k).Kind, opts[OptionOf(k).Field])]

----------------------------------------------------------------------------
(* The cached image resource: cached_image_resource.go                     *)

\* uuid.Nil.String()
nilUUID ==
    <<"0","0","0","0","0","0","0","0","-","0","0","0","0","-","0","0","0","0","-",
      "0","0","0","0","-","0","0","0","0","0","0","0","0","0","0","0","0">>

\* A reference by tag instead of by digest.
ImageRef_ByTag(cacheRepo, digest) == cacheRepo \o <<":">> \o digest

\* fmt.Sprintf("%s@%s", data.CacheRepo.ValueString(), digest)
ImageRef(cacheRepo, digest) == cacheRepo \o <<"@">> \o digest

\* No resource in the Terraform state.
NoState == [present |-> FALSE]

\* resp.State.Set(ctx, &data): the attributes of the model, inputs and computed.
StateOf(data, env, exists, id, image) ==
    [present |-> TRUE, cfg |-> data, env_map |-> env, env |-> DockerEnv(env),
     exists |-> exists, id |-> id, image |-> image]

\* No call was made.
NoOutcome == [kind |-> "none"]

\* The error texts of the registry client that the model draws from.
MANIFEST_UNKNOWN == <<"M","A","N","I","F","E","S","T","_","U","N","K","N","O","W","N">>
NAME_UNKNOWN == <<"N","A","M","E","_","U","N","K","N","O","W","N">>
UNAUTHORIZED == <<"U","N","A","U","T","H","O","R","I","Z","E","D">>

\* getRemoteImage(imgRef) against a registry serving the references in served,
\* the registry client failing with the given error text or not at all
\* (fault = <<>>): fmt.Errorf("check remote image: %w", err), or the image.
\* A reference by digest yields the manifest with that digest or nothing.
getRemoteImage(imgRef, served, fault, digestOK) ==
    LET wrap(e) == <<"c","h","e","c","k",":">> \o e
    IN  IF fault # <<>> THEN [kind |-> "error", err |-> wrap(fault)]
        ELSE IF \E e \in served : e.ref = imgRef
        THEN [kind |-> "image",
              digest |-> (CHOOSE e \in served : e.ref = imgRef).digest,
              digestOK |-> digestOK]
        ELSE [kind |-> "error", err |-> wrap(MANIFEST_UNKNOWN)]

\* The texts of filepath.Join(tmpDir, "envbuilder"), of
\* filepath.Join(tmpDir, "workspace") and of filepath.Join(tmpDir, "repo"),
\* tmpDir being "/t".
probeEnvbuilderPath == <<"/","t","/","e","n","v","b","u","i","l","d","e","r">>
probeWorkspaceFolder == <<"/","t","/","w","o","r","k","s","p","a","c","e">>
probeRepoDir == <<"/","t","/","r","e","p","o">>

\* The options runCacheProbe hands to envbuilder.RunCacheProbe. Its
\* opts.Filesystem and opts.Logger are handles of the running process and
\* no options of CLI().
probeOptions(opts) ==
    [opts EXCEPT !["BinaryPath"] = probeEnvbuilderPath,
                 !["ForceSafe"] = FALSE,
                 !["GetCachedImage"] = TRUE,
                 !["WorkspaceFolder"] = IF @ = <<>> THEN probeWorkspaceFolder ELSE @,
                 !["RemoteRepoDir"] = probeRepoDir,
                 !["CoderAgentSubsystem"] = <<>>,
                 !["CoderAgentToken"] = <<>>,
                 !["CoderAgentURL"] = <<>>,
                 !["ExportEnvFile"] = <<>>,
                 !["InitArgs"] = <<>>,
                 !["InitCommand"] = <<>>,
                 !["InitScript"] = <<>>,
                 !["LayerCacheDir"] = <<>>,
                 !["PostStartScriptPath"] = <<>>,
                 !["PushImage"] = FALSE,
                 !["SetupScript"] = <<>>,
                 !["SkipRebuild"] = FALSE]

\* envbuilder.RunCacheProbe(ctx, opts), ending as outcome says: an error, or
\* an image with its digest.
RunCacheProbe(opts, outcome) ==
    IF outcome.kind = "error"
    THEN [kind |-> "error", err |-> "cache probe", opts |-> opts]
    ELSE [kind |-> "image", digest |-> outcome.digest, digestOK |-> outcome.digestOK,
          opts |-> opts]

\* runCacheProbe(ctx, builderImage, opts) in a world where the steps it takes
\* end as world says: creating the temporary directory, the kaniko directory,
\* extracting the envbuilder binary from the builder image, creating the
\* workspace folder when the options name none, creating the repository
\* directory, and the probe itself.
runCacheProbe(builderImage, opts, world) ==
    IF ~world.mkdirTemp THEN
        [kind |-> "error", err |-> "unable to create temp directory"]
    ELSE IF ~world.mkdirKaniko THEN
        [kind |-> "error", err |-> "failed to create kaniko dir"]
    ELSE IF ~world.extract THEN
        [kind |-> "error",
         err |-> "failed to fetch the envbuilder binary from the builder image"]
    ELSE IF opts["WorkspaceFolder"] = <<>> /\ ~world.mkdirWorkspace THEN
        [kind |-> "error", err |-> "failed to create workspace folder"]
    ELSE IF ~world.mkdirRepo THEN
        [kind |-> "error", err |-> "failed to create repo dir"]
    ELSE
        RunCacheProbe(probeOptions(opts), world.probe)

\* A Create that saves the image it looked for after a miss.
createMiss_KeepsCacheRef(data, env) ==
    StateOf(data, env, FALSE, nilUUID, ImageRef(data.cache_repo, nilUUID))

\* Create, after the cache probe failed: the state it saves.
createMiss(data, env) == StateOf(data, env, FALSE, nilUUID, data.builder_image)

\* A Create that saves a found image as not existing.
createFound_NotExists(data, env, digest) ==
    StateOf(data, env, FALSE, digest, ImageRef(data.cache_repo, digest))

\* Create, after the cache probe returned an image with this digest.
createFound(data, env, digest) ==
    StateOf(data, env, TRUE, digest, ImageRef(data.cache_repo, digest))

\* A Create that saves a miss when the digest cannot be read.
createAfterProbe_DigestErrorIsMiss(data, ds, env, cachedImg) ==
    IF cachedImg.kind = "error" \/ ~cachedImg.digestOK THEN
        [state |-> createMiss(data, env),
         diags |-> Append(ds, Warning("Cached image not found.", <<>>)),
         probe |-> cachedImg]
    ELSE
        [state |-> createFound(data, env, cachedImg.digest),
         diags |-> ds,
         probe |-> cachedImg]

\* Create, from the result cachedImg of the cache probe on.
createAfterProbe(data, ds, env, cachedImg) ==
    IF cachedImg.kind = "error" THEN
        [state |-> createMiss(data, env),
         diags |-> Append(ds, Warning("Cached image not found.", <<>>)),
         probe |-> cachedImg]
    ELSE IF ~cachedImg.digestOK THEN
        [state |-> NoState,
         diags |-> Append(ds, Error("Failed to get cached image digest", <<>>)),
         probe |-> cachedImg]
    ELSE
        [state |-> createFound(data, env, cachedImg.digest),
         diags |-> ds,
         probe |-> cachedImg]

\* A Create that computes the environment from the options of the probe.
createAfterOptions_EnvOfProbe(data, r, world) ==
    IF HasError(r.diags) THEN
        [state |-> NoState, diags |-> r.diags, probe |-> NoOutcome]
    ELSE
        createAfterProbe(data, r.diags,
                         computeEnvFromOptions(probeOptions(r.opts), data.extra_env),
                         runCacheProbe(data.builder_image, r.opts, world))

\* Create, from the result r of optionsFromDataModel on.
createAfterOptions(data, r, world) ==
    IF HasError(r.diags) THEN
        [state |-> NoState, diags |-> r.diags, probe |-> NoOutcome]
    ELSE
        createAfterProbe(data, r.diags, computeEnvFromOptions(r.opts, data.extra_env),
                         runCacheProbe(data.builder_image, r.opts, world))

\* CachedImageResource.Create on the plan data, in the given world: the
\* state of the resource afterwards, the diagnostics, and the probe's result.
CreateResult(data, order, world) ==
    createAfterOptions(data, optionsFromDataModel(data, order), world)

\* A Read that never recognises a previous miss.
previousMiss_Never(data) == FALSE

\* Read: the previous state says Image == BuilderImage.
previousMiss(data) == data.image = data.cfg.builder_image

\* A Read that takes every "unknown" error for a missing manifest.
isManifestUnknown_AnyUnknown(err) == Contains(err, <<"U","N","K","N","O","W","N">>)

\* Read: the registry's error says the manifest is unknown.
isManifestUnknown(err) == Contains(err, MANIFEST_UNKNOWN)

\* A Read that keeps the nil id when it finds the image.
readFound_NilID(data, env, digest) ==
    StateOf(data.cfg, env, TRUE, nilUUID, ImageRef(data.cfg.cache_repo, digest))

\* Read, after the registry returned the image with this digest.
readFound(data, env, digest) ==
    StateOf(data.cfg, env, TRUE, digest, ImageRef(data.cfg.cache_repo, digest))

\* Read, from the answer img of getRemoteImage on.
readAfterFetch(data, ds, env, img) ==
    IF img.kind = "error" THEN
        IF ~isManifestUnknown(img.err) THEN
            [state |-> data,
             diags |-> Append(ds, Warning("Unable to check remote image.", <<>>)),
             fetch |-> img]
        ELSE
            [state |-> NoState,
             diags |-> Append(ds, Warning("Previously built image not found, recreating.",
                                          <<>>)),
             fetch |-> img]
    ELSE IF ~img.digestOK THEN
        [state |-> data,
         diags |-> Append(ds, Error("Error fetching image digest", <<>>)),
         fetch |-> img]
    ELSE
        [state |-> readFound(data, env, img.digest), diags |-> ds, fetch |-> img]

\* Read, from the result r of optionsFromDataModel on.
readAfterOptions(data, r, served, fault, digestOK) ==
    IF HasError(r.diags) THEN
        [state |-> data, diags |-> r.diags, fetch |-> NoOutcome]
    ELSE IF previousMiss(data) THEN
        [state |-> NoState,
         diags |-> Append(r.diags,
                          Warning("Re-running cache probe due to previous miss.", <<>>)),
         fetch |-> NoOutcome]
    ELSE
        readAfterFetch(data, r.diags, computeEnvFromOptions(r.opts, data.cfg.extra_env),
                       getRemoteImage(data.image, served, fault, digestOK))

\* CachedImageResource.Read on the prior state data, against the registry:
\* the state afterwards, the diagnostics, and the registry's answer if it
\* was asked.
ReadResult(data, order, served, fault, digestOK) ==
    readAfterOptions(data, optionsFromDataModel(data.cfg, order), served, fault, digestOK)

----------------------------------------------------------------------------
(* Bounds and the inputs drawn from them                                   *)

\* The number of distinct image digests.
NumDigests == 2
\* The largest number of entries of extra_env.
MaxExtraEnv == 2
\* The number of passes that can run in the provider process at once.
NumPasses == 2
\* The largest number of layers of a builder image.
MaxLayers == 2

Digests == {<<"d">> \o FormatNat(i) : i \in 1..NumDigests}

cacheRepo == <<"r">>
gitURL == <<"g">>
\* A builder image outside the cache repository, and one that is textually
\* a reference into the cache repository.
BuilderImages == {<<"e","b">>, ImageRef(cacheRepo, <<"d","1">>)}

\* The maps with at most n entries drawn from the given <<key, value>> pairs.
RECURSIVE MapsUpTo(_, _)
MapsUpTo(entries, n) ==
    IF n = 0 THEN {[k \in {} |-> <<>>]}
    ELSE LET prev == MapsUpTo(entries, n - 1)
         IN  prev \cup UNION {
                 {[k \in DOMAIN m \cup {e[1]} |-> IF k = e[1] THEN e[2] ELSE m[k]] :
                     e \in {x \in entries : x[1] \notin DOMAIN m}} : m \in prev}

\* The entries extra_env is built from in the life-cycle specification.
LifecycleEntries ==
    { <<ENVBUILDER_CACHE_REPO, <<"x">>>>,
      <<ENVBUILDER_VERBOSE, strTrue>>,
      <<ENVBUILDER_VERBOSE, <<"m","a","y","b","e">>>>,
      <<ENVBUILDER_REMOTE_REPO_BUILD_MODE, strFalse>>,
      <<FOO, <<"b","a","r">>>> }

\* The optional attributes, all of them null.
NullAttributes == [a \in AttributeNames |-> Null]

\* A CachedImageResourceModel with its input attributes.
Model(builderImage, attrs, extraEnv) ==
    [n \in AttributeNames \cup {"builder_image", "cache_repo", "git_url", "extra_env"} |->
        CASE n = "builder_image" -> builderImage
          [] n = "cache_repo" -> cacheRepo
          [] n = "git_url" -> gitURL
          [] n = "extra_env" -> extraEnv
          [] OTHER -> attrs[n]]

\* Two extra_env maps that set the options runCacheProbe adjusts for the
\* probe: the flags, and the scripts and the agent token.
ProbeOnlyFlags ==
    [k \in {ENVBUILDER_PUSH_IMAGE, ENVBUILDER_FORCE_SAFE, ENVBUILDER_GET_CACHED_IMAGE} |->
        IF k = ENVBUILDER_GET_CACHED_IMAGE THEN strFalse ELSE strTrue]
ProbeOnlyTexts ==
    [k \in {ENVBUILDER_SETUP_SCRIPT, ENVBUILDER_INIT_SCRIPT, CODER_AGENT_TOKEN} |-> <<"s">>]
\* An extra_env that names one option twice, by its ENVBUILDER_ name and by
\* its legacy name.
VerboseTwice ==
    [k \in {ENVBUILDER_VERBOSE, VERBOSE} |-> IF k = VERBOSE THEN strFalse ELSE strTrue]

\* The attributes of a configuration that names its workspace folder.
WorkspaceAttributes == [NullAttributes EXCEPT !.workspace_folder = Known(<<"/","w">>)]

LifecycleConfigs ==
    {Model(b, NullAttributes, e) :
        b \in BuilderImages,
        e \in MapsUpTo(LifecycleEntries, MaxExtraEnv)
                 \cup {ProbeOnlyFlags, ProbeOnlyTexts, VerboseTwice}}
    \cup {Model(b, WorkspaceAttributes, [k \in {} |-> <<>>]) : b \in BuilderImages}

\* How the steps of one cache probe can end.
ProbeWorlds ==
    LET ok == [mkdirTemp |-> TRUE, mkdirKaniko |-> TRUE, extract |-> TRUE,
               mkdirWorkspace |-> TRUE, mkdirRepo |-> TRUE,
               probe |-> [kind |-> "error"]]
    IN  { [ok EXCEPT !.mkdirTemp = FALSE],
          [ok EXCEPT !.mkdirKaniko = FALSE],
          [ok EXCEPT !.extract = FALSE],
          [ok EXCEPT !.mkdirWorkspace = FALSE],
          [ok EXCEPT !.mkdirRepo = FALSE],
          ok }
        \cup {[ok EXCEPT !.probe = [kind |-> "image", digest |-> d, digestOK |-> b]] :
                 d \in Digests, b \in BOOLEAN}

\* The failures of the registry client other than an unknown manifest; <<>> is none.
RegistryFaults == {<<>>, NAME_UNKNOWN, UNAUTHORIZED}

\* The references the cache repository serves.
Served == {[ref |-> ImageRef(cacheRepo, d), digest |-> d] : d \in registry}

----------------------------------------------------------------------------
(* Passes running concurrently in the provider process                     *)

Passes == 1..NumPasses

\* A path of the file system: the pass whose os.MkdirTemp made its root (0 for
\* a path outside every temporary directory) and the path below that root.
Path(p, name) == [pass |-> p, name |-> name]

\* The value of kconfig.KanikoDir when the provider process starts.
DefaultKanikoDir == Path(0, "/kaniko")

\* The locals of runCacheProbe in pass p.
tmpDir(p) == Path(p, "")
tmpKanikoDir(p) == Path(p, ".envbuilder")
envbuilderPath(p) == Path(p, "envbuilder")
workspaceFolder(p) == Path(p, "workspace")
repoDir(p) == Path(p, "repo")

\* os.RemoveAll(dir) without an error: what is left of the file system fs.
RemoveAll(fs, dir) == {d \in fs : d.pass # dir.pass}

\* A pass that has not been started.
IdlePass == [pc |-> "idle", oldKanikoDir |-> Path(0, ""), result |-> "none"]

\* No pass runs and no image is scanned.
NoProcess ==
    /\ KanikoDir = DefaultKanikoDir
    /\ pass = [p \in Passes |-> IdlePass]
    /\ dirs = {}
    /\ ctxDone = FALSE
    /\ scan = NoOutcome

\* Pass p goes on at pc; an error return records its message.
Goto(p, pc) == pass' = [pass EXCEPT ![p].pc = pc]
Fail(p, pc, err) == pass' = [pass EXCEPT ![p].pc = pc, ![p].result = err]

\* tmpDir, err := os.MkdirTemp(...), and defer os.RemoveAll(tmpDir).
MkdirTemp(p) ==
    /\ pass[p].pc = "idle"
    /\ dirs' = dirs \cup {tmpDir(p)}
    /\ Goto(p, "oldKanikoDir")
    /\ UNCHANGED <<resourceVars, scan, KanikoDir, ctxDone>>

\* os.MkdirTemp fails: runCacheProbe returns before any defer.
MkdirTempFails(p) ==
    /\ pass[p].pc = "idle"
    /\ Fail(p, "returned", "unable to create temp directory")
    /\ UNCHANGED <<resourceVars, scan, KanikoDir, dirs, ctxDone>>

\* oldKanikoDir := kconfig.KanikoDir
SaveKanikoDir(p) ==
    /\ pass[p].pc = "oldKanikoDir"
    /\ pass' = [pass EXCEPT ![p].pc = "setKanikoDir", ![p].oldKanikoDir = KanikoDir]
    /\ UNCHANGED <<resourceVars, scan, KanikoDir, dirs, ctxDone>>

\* kconfig.KanikoDir = tmpKanikoDir, and defer the restore.
SetKanikoDir(p) ==
    /\ pass[p].pc = "setKanikoDir"
    /\ KanikoDir' = tmpKanikoDir(p)
    /\ Goto(p, "mkdirKaniko")
    /\ UNCHANGED <<resourceVars, scan, dirs, ctxDone>>

\* os.MkdirAll(tmpKanikoDir, 0o755)
MkdirKaniko(p) ==
    /\ pass[p].pc = "mkdirKaniko"
    /\ \/ dirs' = dirs \cup {tmpKanikoDir(p)} /\ Goto(p, "extract")
       \/ dirs' = dirs /\ Fail(p, "restore", "failed to create kaniko dir")
    /\ UNCHANGED <<resourceVars, scan, KanikoDir, ctxDone>>

\* extractEnvbuilderFromImage(ctx, builderImage, envbuilderPath) returns. It
\* uses ctx for logging only: the fetch of the image and the reads of its
\* layers go on whether or not ctx is cancelled.
ExtractReturns(p) ==
    /\ pass[p].pc = "extract"
    /\ \/ dirs' = dirs \cup {envbuilderPath(p)} /\ Goto(p, "mkdirWorkspace")
       \/ \* an error before os.Create(destPath) has made the file
          /\ dirs' = dirs
          /\ Fail(p, "restore",
                  "failed to fetch the envbuilder binary from the builder image")
       \/ \* an error of io.Copy, destF.Close or os.Chmod: the file is there
          /\ dirs' = dirs \cup {envbuilderPath(p)}
          /\ Fail(p, "restore",
                  "failed to fetch the envbuilder binary from the builder image")
    /\ UNCHANGED <<resourceVars, scan, KanikoDir, ctxDone>>

\* if opts.WorkspaceFolder == "" { os.MkdirAll(filepath.Join(tmpDir, "workspace")) }
MkdirWorkspace(p) ==
    /\ pass[p].pc = "mkdirWorkspace"
    /\ \/ dirs' = dirs /\ Goto(p, "mkdirRepo")
       \/ dirs' = dirs \cup {workspaceFolder(p)} /\ Goto(p, "mkdirRepo")
       \/ dirs' = dirs /\ Fail(p, "restore", "failed to create workspace folder")
    /\ UNCHANGED <<resourceVars, scan, KanikoDir, ctxDone>>

\* os.MkdirAll(repoDir, 0o755), and then the call of envbuilder.RunCacheProbe.
MkdirRepo(p) ==
    /\ pass[p].pc = "mkdirRepo"
    /\ \/ dirs' = dirs \cup {repoDir(p)} /\ Goto(p, "probe")
       \/ dirs' = dirs /\ Fail(p, "restore", "failed to create repo dir")
    /\ UNCHANGED <<resourceVars, scan, KanikoDir, ctxDone>>

\* envbuilder.RunCacheProbe(ctx, opts) returns an image or an error.
ProbeReturns(p) ==
    /\ pass[p].pc = "probe"
    /\ \E r \in {"image", "cache probe"} : Fail(p, "restore", r)
    /\ UNCHANGED <<resourceVars, scan, KanikoDir, dirs, ctxDone>>

\* envbuilder.RunCacheProbe(ctx, opts) returns because ctx is cancelled.
ProbeAborts(p) ==
    /\ pass[p].pc = "probe"
    /\ ctxDone
    /\ Fail(p, "restore", "context canceled")
    /\ UNCHANGED <<resourceVars, scan, KanikoDir, dirs, ctxDone>>

\* The deferred kconfig.KanikoDir = oldKanikoDir.
RestoreKanikoDir(p) ==
    /\ pass[p].pc = "restore"
    /\ KanikoDir' = pass[p].oldKanikoDir
    /\ Goto(p, "removeAll")
    /\ UNCHANGED <<resourceVars, scan, dirs, ctxDone>>

\* The deferred os.RemoveAll(tmpDir), and the return of runCacheProbe, which
\* ends the life of its locals. When os.RemoveAll returns an error the code
\* logs it and returns all the same: tmpDir is left, with whatever below it
\* had not been removed before the error.
RemoveTmpDir(p) ==
    /\ pass[p].pc = "removeAll"
    /\ \/ dirs' = RemoveAll(dirs, tmpDir(p))
       \/ \E left \in SUBSET (dirs \ RemoveAll(dirs, tmpDir(p))) :
             /\ tmpDir(p) \in left
             /\ dirs' = RemoveAll(dirs, tmpDir(p)) \cup left
    /\ pass' = [pass EXCEPT ![p].pc = "returned", ![p].oldKanikoDir = IdlePass.oldKanikoDir]
    /\ UNCHANGED <<resourceVars, scan, KanikoDir, ctxDone>>

\* Read calls getRemoteImage(data.Image.ValueString()), which takes no context.
StartFetch(p) ==
    /\ pass[p].pc = "idle"
    /\ Goto(p, "fetch")
    /\ UNCHANGED <<resourceVars, scan, KanikoDir, dirs, ctxDone>>

\* The registry answers the fetch of Read.
FetchReturns(p) ==
    /\ pass[p].pc = "fetch"
    /\ \E r \in {"image", "check remote image"} : Fail(p, "returned", r)
    /\ UNCHANGED <<resourceVars, scan, KanikoDir, dirs, ctxDone>>

\* The operations of a pass that wait for something outside the process.
Blocking == {"extract", "probe", "fetch"}

\* The host stops the provider, which cancels the context of every pass. A
\* pass looks at its context in a blocking operation at most, so a
\* cancellation at any other moment is the same as one at the start of the
\* next blocking operation.
Cancel ==
    /\ \E p \in Passes : pass[p].pc \in Blocking
    /\ ~ctxDone
    /\ ctxDone' = TRUE
    /\ UNCHANGED <<resourceVars, scan, KanikoDir, pass, dirs>>

\* The steps pass p takes by itself, without waiting for anything outside
\* the process.
LocalStep(p) ==
    \/ SaveKanikoDir(p) \/ SetKanikoDir(p) \/ MkdirKaniko(p) \/ MkdirWorkspace(p)
    \/ MkdirRepo(p) \/ ProbeAborts(p) \/ RestoreKanikoDir(p) \/ RemoveTmpDir(p)

\* One configuration, and no resource in the state.
NoResource ==
    /\ config = Model(<<"e","b">>, NullAttributes, [k \in {} |-> <<>>])
    /\ state = NoState
    /\ registry = {}
    /\ diags = <<>>
    /\ op = [name |-> "none", prior |-> NoState, probe |-> NoOutcome, fetch |-> NoOutcome,
             served |-> FALSE]
    /\ created = NoState
    /\ changed = FALSE
    /\ resolved = NoOutcome

InitProbe == NoResource /\ NoProcess

NextProbe ==
    \/ \E p \in Passes :
          \/ MkdirTemp(p) \/ MkdirTempFails(p) \/ SaveKanikoDir(p) \/ SetKanikoDir(p)
          \/ MkdirKaniko(p) \/ ExtractReturns(p) \/ MkdirWorkspace(p) \/ MkdirRepo(p)
          \/ ProbeReturns(p) \/ ProbeAborts(p) \/ RestoreKanikoDir(p)
          \/ RemoveTmpDir(p) \/ StartFetch(p) \/ FetchReturns(p)
    \/ Cancel

SpecProbe == InitProbe /\ [][NextProbe]_vars

\* The passes scheduled fairly: a pass that can take a step by itself takes
\* it. Nothing makes a registry, or the probe, answer.
SpecProbeFair == SpecProbe /\ \A p \in Passes : WF_vars(LocalStep(p))

----------------------------------------------------------------------------
(* extractEnvbuilderFromImage: the scan of the layers of an image          *)

\* filepath.Clean, for the elements of a path that are left after "." and
\* empty elements are dropped and ".." has removed the element before it.
RECURSIVE cleanElements(_, _, _)
cleanElements(elems, rooted, acc) ==
    IF elems = <<>> THEN acc
    ELSE IF elems[1] \in {<<>>, <<".">>} THEN cleanElements(Tail(elems), rooted, acc)
    ELSE IF elems[1] = <<".", ".">> THEN
        IF acc # <<>> /\ acc[Len(acc)] # <<".", ".">>
        THEN cleanElements(Tail(elems), rooted, SubSeq(acc, 1, Len(acc) - 1))
        ELSE IF rooted THEN cleanElements(Tail(elems), rooted, acc)
        ELSE cleanElements(Tail(elems), rooted, Append(acc, elems[1]))
    ELSE cleanElements(Tail(elems), rooted, Append(acc, elems[1]))

\* filepath.Clean(path) on a system whose separator is "/".
Clean(path) ==
    LET rooted == path # <<>> /\ path[1] = "/"
        elems == cleanElements(SplitOn(path, "/"), rooted, <<>>)
    IN  IF rooted THEN <<"/">> \o Join(elems, <<"/">>)
        ELSE IF elems = <<>> THEN <<".">>
        ELSE Join(elems, <<"/">>)

\* constants.MagicBinaryLocation
MagicBinaryLocation ==
    <<"/",".","e","n","v","b","u","i","l","d","e","r","/","b","i","n","/",
      "e","n","v","b","u","i","l","d","e","r">>

\* needle := filepath.Clean(constants.MagicBinaryLocation)[1:]
needle == Tail(Clean(MagicBinaryLocation))

\* The header of one entry of a layer's tar stream; a header that cannot be
\* read has the type "corrupt".
Header(name, typeflag) == [name |-> name, typeflag |-> typeflag]
TypeReg == "TypeReg"
TypeSymlink == "TypeSymlink"

\* Names of entries: the target as it is, the target written with "./" and a
\* doubled separator, the target as a rooted path, and another file.
nameDotSlash == <<".","/">> \o SubSeq(needle, 1, 12) \o <<"/">> \o SubSeq(needle, 13, Len(needle))
nameOther == <<"b","i","n","/","s","h">>

\* The layers images are built from: a layer is the sequence of the headers
\* of its tar stream, or a layer whose Uncompressed() fails.
BrokenLayer == [broken |-> TRUE, entries |-> <<>>]
Layer(entries) == [broken |-> FALSE, entries |-> entries]
LayerShapes ==
    { Layer(<<>>),
      Layer(<<Header(nameOther, TypeReg)>>),
      Layer(<<Header(needle, TypeReg)>>),
      Layer(<<Header(nameOther, TypeReg), Header(nameDotSlash, TypeReg),
              Header(needle, TypeReg)>>),
      Layer(<<Header(needle, TypeSymlink)>>),
      Layer(<<Header(MagicBinaryLocation, TypeReg)>>),
      Layer(<<Header(nameOther, "corrupt")>>),
      BrokenLayer }

RECURSIVE SeqsUpTo(_, _)
SeqsUpTo(S, n) ==
    IF n = 0 THEN {<<>>}
    ELSE SeqsUpTo(S, n - 1) \cup {Append(q, x) : q \in SeqsUpTo(S, n - 1), x \in S}

\* The images, oldest layer first, as img.Layers() returns them.
Images == SeqsUpTo(LayerShapes, MaxLayers)

\* No file at destPath.
NoFile == [exists |-> FALSE]
\* The file at destPath holding the data of entry j of layer i, all of it or
\* the part copied before the copy failed.
FileOf(i, j, complete) == [exists |-> TRUE, layer |-> i, entry |-> j, complete |-> complete]

\* A scan that visits the layers from the oldest to the newest.
layerAt_OldestFirst(layers, k) == k

\* for i := len(layers) - 1; i >= 0; i--: the layer visited in round k of the
\* loop, counted from 1.
layerAt(layers, k) == Len(layers) - k + 1

\* A scan that takes an entry of any type at the target path.
isNeedle_AnyType(th) == Clean(th.name) = needle

\* th.Typeflag == tar.TypeReg and filepath.Clean(th.Name) == needle
isNeedle(th) == th.typeflag = TypeReg /\ Clean(th.name) = needle

\* The scan returns.
Return(result) == scan' = [scan EXCEPT !.pc = "done", !.result = result]

\* What a step of the scan leaves alone.
scanFrame == <<resourceVars, KanikoDir, pass, dirs, ctxDone>>

\* The scan of this image, about to fetch it.
ScanOf(image) ==
    [kind |-> "scan", image |-> image, pc |-> "fetch", k |-> 0, j |-> 0, read |-> <<>>,
     dest |-> NoFile, result |-> "none"]

\* img, err := getRemoteImage(imgRef) and layers, err := img.Layers()
FetchLayers ==
    /\ scan.pc = "fetch"
    /\ \/ scan' = [scan EXCEPT !.pc = "layer", !.k = 1]
       \/ Return("check remote image")
       \/ Return("get image layers")
    /\ UNCHANGED scanFrame

\* The head of the outer loop: the next layer is opened, or there is none
\* left and the function returns the error that wraps os.ErrNotExist.
OpenLayer ==
    /\ scan.pc = "layer"
    /\ IF scan.k > Len(scan.image) THEN Return("os.ErrNotExist")
       ELSE IF scan.image[layerAt(scan.image, scan.k)].broken
            THEN Return("get uncompressed layer")
       ELSE scan' = [scan EXCEPT !.pc = "entry", !.j = 1,
                                 !.read = Append(@, layerAt(scan.image, scan.k))]
    /\ UNCHANGED scanFrame

\* th, err := tr.Next() on the layer that is open: the end of the stream,
\* an error, or a header that is skipped.
NextHeader ==
    /\ scan.pc = "entry"
    /\ LET entries == scan.image[layerAt(scan.image, scan.k)].entries
       IN  IF scan.j > Len(entries)
           THEN scan' = [scan EXCEPT !.pc = "layer", !.k = @ + 1]
           ELSE IF entries[scan.j].typeflag = "corrupt" THEN Return("read tar header")
           ELSE /\ ~isNeedle(entries[scan.j])
                /\ scan' = [scan EXCEPT !.j = @ + 1]
    /\ UNCHANGED scanFrame

\* The header read is the target: the file is written to destPath, as far
\* as the file system lets it, and the function returns.
ExtractFile ==
    /\ scan.pc = "entry"
    /\ LET i == layerAt(scan.image, scan.k)
           entries == scan.image[i].entries
       IN  /\ scan.j <= Len(entries)
           /\ entries[scan.j].typeflag # "corrupt"
           /\ isNeedle(entries[scan.j])
           /\ \/ Return("create parent directories")
              \/ Return("create dest file for writing")
              \/ scan' = [scan EXCEPT !.pc = "done", !.dest = FileOf(i, scan.j, FALSE),
                                      !.result = "copy dest file from image"]
              \/ scan' = [scan EXCEPT !.pc = "done", !.dest = FileOf(i, scan.j, TRUE),
                                      !.result = "close dest file"]
              \/ scan' = [scan EXCEPT !.pc = "done", !.dest = FileOf(i, scan.j, TRUE),
                                      !.result = "chmod file"]
              \/ scan' = [scan EXCEPT !.pc = "done", !.dest = FileOf(i, scan.j, TRUE),
                                      !.result = "nil"]
    /\ UNCHANGED scanFrame

InitExtract ==
    /\ NoResource
    /\ KanikoDir = DefaultKanikoDir
    /\ pass = [p \in Passes |-> IdlePass]
    /\ dirs = {}
    /\ ctxDone = FALSE
    /\ scan \in {ScanOf(image) : image \in Images}

NextExtract == FetchLayers \/ OpenLayer \/ NextHeader \/ ExtractFile

SpecExtract == InitExtract /\ [][NextExtract]_vars

----------------------------------------------------------------------------
(* The life cycle of one resource                                          *)

Init ==
    /\ config \in LifecycleConfigs
    /\ state = NoState
    /\ registry = {}
    /\ diags = <<>>
    /\ op = [name |-> "none", prior |-> NoState, probe |-> NoOutcome, fetch |-> NoOutcome,
             served |-> FALSE]
    /\ created = NoState
    /\ changed = FALSE
    /\ resolved = NoOutcome
    /\ NoProcess

\* The framework takes what Create returned.
Created(r) ==
    /\ state' = r.state
    /\ diags' = r.diags
    /\ op' = [name |-> "Create", prior |-> state, probe |-> r.probe, fetch |-> NoOutcome,
              served |-> FALSE]
    /\ created' = r.state

\* The framework takes what Read returned.
Refreshed(r) ==
    /\ state' = r.state
    /\ diags' = r.diags
    /\ op' = [name |-> "Read", prior |-> state, probe |-> NoOutcome, fetch |-> r.fetch,
              served |-> \E e \in Served : e.ref = state.image]

\* Terraform creates the resource when it is not in the state.
Create ==
    /\ ~state.present
    /\ \E order \in Orders(DOMAIN config.extra_env), world \in ProbeWorlds :
          Created(CreateResult(config, order, world))
    /\ changed' = FALSE
    /\ UNCHANGED <<config, registry, resolved>>
    /\ UNCHANGED procVars

\* Terraform refreshes the resource that is in the state.
Read ==
    /\ state.present
    /\ \E order \in Orders(DOMAIN state.cfg.extra_env),
          fault \in RegistryFaults, digestOK \in BOOLEAN :
          Refreshed(ReadResult(state, order, Served, fault, digestOK))
    /\ UNCHANGED <<config, registry, created, changed, resolved>>
    /\ UNCHANGED procVars

\* Terraform destroys the resource: Delete saves the state it was given and
\* the framework then drops the resource.
Delete ==
    /\ state.present
    /\ state' = NoState
    /\ diags' = <<>>
    /\ op' = [name |-> "Delete", prior |-> state, probe |-> NoOutcome, fetch |-> NoOutcome,
              served |-> FALSE]
    /\ UNCHANGED <<config, registry, created, changed, resolved>>
    /\ UNCHANGED procVars

\* Terraform applies a change in place: Update saves the plan it is given.
\* The configuration of the model does not change, and a change of a
\* computed attribute requires replacement, so the plan of an Update is the
\* state as it is.
Update ==
    /\ state.present
    /\ \E plan \in {state} : state' = plan
    /\ diags' = <<>>
    /\ op' = [name |-> "Update", prior |-> state, probe |-> NoOutcome, fetch |-> NoOutcome,
              served |-> FALSE]
    /\ UNCHANGED <<config, registry, created, changed, resolved>>
    /\ UNCHANGED procVars

\* An image is pushed to the cache repository.
RegistryPush ==
    /\ \E d \in Digests \ registry : registry' = registry \cup {d}
    /\ changed' = TRUE
    /\ UNCHANGED <<config, state, diags, op, created, resolved>>
    /\ UNCHANGED procVars

\* An image is removed from the cache repository.
RegistryEvict ==
    /\ \E d \in registry : registry' = registry \ {d}
    /\ changed' = TRUE
    /\ UNCHANGED <<config, state, diags, op, created, resolved>>
    /\ UNCHANGED procVars

Next == Create \/ Read \/ Update \/ Delete \/ RegistryPush \/ RegistryEvict

Spec == Init /\ [][Next]_vars

----------------------------------------------------------------------------
(* Option resolution on its own                                            *)

\* The entries extra_env is built from.
ResolveEntries ==
    { <<ENVBUILDER_CACHE_REPO, <<"x">>>>,
      <<ENVBUILDER_GIT_URL, <<"x">>>>,
      <<ENVBUILDER_VERBOSE, strTrue>>,
      <<ENVBUILDER_VERBOSE, <<"m","a","y","b","e">>>>,
      <<ENVBUILDER_CACHE_TTL_DAYS, <<"+","8">>>>,
      <<ENVBUILDER_CACHE_TTL_DAYS, <<"x">>>>,
      <<ENVBUILDER_IGNORE_PATHS, <<"\n","\"","a",",","b","\"",",","c","\n","d","\"">>>>,
      <<ENVBUILDER_IGNORE_PATHS, <<"\n">>>>,
      <<ENVBUILDER_DOCKERFILE_PATH, <<"F">>>>,
      <<GIT_URL, <<"y">>>>,
      <<VERBOSE, strFalse>>,
      <<ENVBUILDER_GIT_SSH_PRIVATE_KEY_PATH, <<"k">>>>,
      <<ENVBUILDER_GIT_SSH_PRIVATE_KEY_BASE64, <<"k">>>>,
      <<ENVBUILDER_REMOTE_REPO_BUILD_MODE, strFalse>>,
      <<ENVBUILDER_SETUP_SCRIPT, <<"0">>>>,
      <<CODER_AGENT_TOKEN, <<"t">>>>,
      <<ENVBUILDER_SOMETHING, <<"s">>>>,
      <<FOO, <<"b","a","r">>>>,
      <<FOO2, <<"x">>>> }

\* Configurations with the optional attributes set.
SetAttributes ==
    [NullAttributes EXCEPT
        !.verbose = Known(TRUE),
        !.cache_ttl_days = Known(Int64Of(7)),
        !.ignore_paths = Known(<< <<"p">> >>),
        !.git_ssh_private_key_path = Known(<<"p">>),
        !.remote_repo_build_mode = Known(FALSE),
        !.dockerfile_path = Known(<<"D">>),
        !.build_secrets = Known([k \in {<<"b">>, <<"a">>} |-> <<"s">>])]

\* Configurations with both git ssh private key attributes set.
BothKeysAttributes ==
    [NullAttributes EXCEPT !.git_ssh_private_key_path = Known(<<"p">>),
                           !.git_ssh_private_key_base64 = Known(<<"q">>)]

ResolveConfigs ==
    {Model(<<"e","b">>, a, e) :
        a \in {NullAttributes, SetAttributes, BothKeysAttributes,
               [NullAttributes EXCEPT !.git_ssh_private_key_base64 = Known(<<"q">>)]},
        e \in MapsUpTo(ResolveEntries, MaxExtraEnv)}

\* What option resolution and the computation of the environment return for
\* the data model, the range over extra_env visiting its keys in this order.
resolutionWith(r, order, env) ==
    [kind |-> "resolved", order |-> order, opts |-> r.opts, diags |-> r.diags,
     env_map |-> env, env |-> DockerEnv(env)]
resolutionOf(r, data, order) ==
    resolutionWith(r, order, computeEnvFromOptions(r.opts, data.extra_env))
Resolution(data, order) == resolutionOf(optionsFromDataModel(data, order), data, order)

InitResolve ==
    /\ config \in ResolveConfigs
    /\ state = NoState
    /\ registry = {}
    /\ diags = <<>>
    /\ op = [name |-> "none", prior |-> NoState, probe |-> NoOutcome, fetch |-> NoOutcome,
             served |-> FALSE]
    /\ created = NoState
    /\ changed = FALSE
    /\ resolved = NoOutcome
    /\ NoProcess

\* optionsFromDataModel and computeEnvFromOptions run on the configuration.
Resolve ==
    /\ \E order \in Orders(DOMAIN config.extra_env) : resolved' = Resolution(config, order)
    /\ UNCHANGED <<config, state, registry, diags, op, created, changed>>
    /\ UNCHANGED procVars

NextResolve == Resolve

SpecResolve == InitResolve /\ [][NextResolve]_vars

----------------------------------------------------------------------------
(* Properties of Create and Read                                           *)

\* The diagnostics hold a warning / an error with this summary.
HasWarning(ds, summary) ==
    \E i \in 1..Len(ds) : ds[i].severity = "warning" /\ ds[i].summary = summary
HasErrorWith(ds, summary) ==
    \E i \in 1..Len(ds) : ds[i].severity = "error" /\ ds[i].summary = summary

\* The last operation was a Create whose cache probe returned an error.
CreateProbeFailed == op.name = "Create" /\ op.probe.kind = "error"
\* The last operation was a Create whose probe returned an image with a readable digest.
CreateProbeFound ==
    op.name = "Create" /\ op.probe.kind = "image" /\ op.probe.digestOK
\* The last operation was a Create whose probe returned an image with an unreadable digest.
CreateDigestFailed ==
    op.name = "Create" /\ op.probe.kind = "image" /\ ~op.probe.digestOK

\* C1: when the cache probe run by Create returns an error, Create saves a
\* state with exists = false, image = builder_image and id = the nil UUID,
\* and reports a warning and no error.
C1_ProbeErrorSavesMiss ==
    CreateProbeFailed =>
        /\ state.present
        /\ state.exists = FALSE
        /\ state.image = config.builder_image
        /\ state.id = nilUUID
        /\ HasWarning(diags, "Cached image not found.")
        /\ ~HasError(diags)

\* A Create whose probe itself failed has saved a state.
C1_Witness ==
    CreateProbeFailed /\ op.probe.err = "cache probe" /\ state.present

\* C2: when the cache probe run by Create succeeds and the digest of the
\* image can be read, Create saves a state with exists = true, id = the
\* digest and image = cache_repo + "@" + digest.
C2_ProbeFoundSavesDigest ==
    CreateProbeFound =>
        /\ state.present
        /\ state.exists = TRUE
        /\ state.id = op.probe.digest
        /\ state.image = config.cache_repo \o <<"@">> \o op.probe.digest

C2_Witness == CreateProbeFound /\ state.present /\ state.id \in Digests

\* C3: a Read of a stored state whose image equals builder_image, the saved
\* form of a cache miss, removes the resource from the state and makes no
\* call to the registry.
C3_ReadOfMissRemoves ==
    (op.name = "Read" /\ ~op.prior.exists /\ op.prior.image = op.prior.cfg.builder_image)
        => (~state.present /\ op.fetch = NoOutcome)

C3_Witness ==
    /\ op.name = "Read" /\ ~op.prior.exists
    /\ op.prior.image = op.prior.cfg.builder_image
    /\ ~state.present
    /\ registry # {}

\* The error text is of the not-found class: the manifest is unknown.
NotFoundClass(err) == Contains(err, MANIFEST_UNKNOWN)

\* C4: when the registry fetch of Read fails, the resource is removed from
\* the state exactly when the error says the manifest is unknown; for any
\* other error the stored state stays as it was and the failure is reported
\* as a warning, with no error.
C4_ReadFetchError ==
    (op.name = "Read" /\ op.fetch.kind = "error") =>
        /\ ~state.present <=> NotFoundClass(op.fetch.err)
        /\ ~NotFoundClass(op.fetch.err) =>
              /\ state = op.prior
              /\ HasWarning(diags, "Unable to check remote image.")
              /\ ~HasError(diags)

\* A Read met a registry error other than an unknown manifest and kept the state.
C4_Witness ==
    /\ op.name = "Read" /\ op.fetch.kind = "error"
    /\ ~NotFoundClass(op.fetch.err)
    /\ Contains(op.fetch.err, NAME_UNKNOWN)
    /\ state.present /\ state = op.prior

\* C5: when the registry fetch of Read succeeds, the state Read saves has
\* exists = true, id = the fetched digest and image = cache_repo + "@" + it.
C5_ReadFoundSavesDigest ==
    (op.name = "Read" /\ op.fetch.kind = "image" /\ op.fetch.digestOK) =>
        /\ state.present
        /\ state.exists = TRUE
        /\ state.id = op.fetch.digest
        /\ state.image = op.prior.cfg.cache_repo \o <<"@">> \o op.fetch.digest

C5_Witness ==
    /\ op.name = "Read" /\ op.fetch.kind = "image" /\ op.fetch.digestOK
    /\ state.present /\ state.exists

\* Only Reads followed the last Create, and the registry has not changed since.
OnlyReadsSinceCreate == op.name = "Read" /\ ~changed

\* The registry serves this image reference.
Serves(ref) == \E d \in registry : ref = cacheRepo \o <<"@">> \o d

\* C6: Create followed by any number of Reads, with no change to the
\* configuration or to the registry, leaves after every Read the state that
\* Create saved (id, image, exists, env, env_map), whatever the outcome of
\* Create's probe was. It is stated for the outcome after which Read has no
\* cause to take the resource for stale: the probe found the image and the
\* registry serves the reference that Create saved.
C6_ReadsKeepFoundState ==
    (OnlyReadsSinceCreate /\ created.exists /\ Serves(created.image)) => state = created

\* C7: in every state saved by Create or Read, exists = false implies that
\* image equals builder_image and id is the nil UUID.
C7_MissStateShape ==
    (state.present /\ ~state.exists) =>
        (state.image = state.cfg.builder_image /\ state.id = nilUUID)

C7_Witness == state.present /\ ~state.exists /\ op.name = "Create"

\* C8: a cache miss is never terminal. A Read of a state with exists = false
\* removes it, so that the Create of the same cycle probes again; a Create
\* whose options resolve runs the probe; once the probe succeeds the state
\* has exists = true in that cycle; and a Read keeps exists = true as long
\* as the registry serves the stored image.
C8_MissNeverTerminal ==
    /\ (op.name = "Read" /\ ~op.prior.exists) => ~state.present
    /\ (op.name = "Create" /\ ~HasError(diags)) => op.probe.kind # "none"
    /\ CreateProbeFound => (state.present /\ state.exists)
    /\ (op.name = "Read" /\ op.prior.exists /\ op.served)
          => (state.present /\ state.exists)

\* C9: when the probe succeeds but the digest of the image cannot be read,
\* Create reports an error and saves no state, found or not found.
C9_DigestFailureSavesNothing ==
    CreateDigestFailed =>
        /\ ~state.present
        /\ HasErrorWith(diags, "Failed to get cached image digest")

C9_Witness == CreateDigestFailed /\ HasError(diags) /\ ~state.present

\* The last operation was a Create that called the external cache probe.
ProbeCalled == op.name = "Create" /\ "opts" \in DOMAIN op.probe

\* C17: the options handed to the external cache probe always have the
\* remote repo build mode enabled, whatever the remote_repo_build_mode
\* attribute or an ENVBUILDER_REMOTE_REPO_BUILD_MODE entry of extra_env says.
C17_ProbeUsesRemoteRepoBuildMode ==
    ProbeCalled => op.probe.opts["RemoteRepoBuildMode"] = TRUE

\* The environment Create computes from the configuration before it probes.
EnvBeforeProbe(o) ==
    computeEnvFromOptions(optionsFromDataModel(config, o).opts, config.extra_env)

\* C29: whatever the configuration and extra_env hold, the options passed to
\* the external probe have GetCachedImage = true, ForceSafe = false and
\* PushImage = false and have the agent, init and setup-script options
\* cleared, and these adjustments do not change the env and env_map that are
\* persisted in the state.
C29_ProbeOnlyAdjustments ==
    ProbeCalled =>
        /\ op.probe.opts["GetCachedImage"] = TRUE
        /\ op.probe.opts["ForceSafe"] = FALSE
        /\ op.probe.opts["PushImage"] = FALSE
        /\ \A f \in {"CoderAgentToken", "CoderAgentURL", "CoderAgentSubsystem",
                      "InitScript", "InitCommand", "InitArgs", "SetupScript"} :
              op.probe.opts[f] = <<>>
        /\ state.present =>
              \E o \in Orders(DOMAIN config.extra_env) :
                  /\ state.env_map = EnvBeforeProbe(o)
                  /\ state.env = DockerEnv(EnvBeforeProbe(o))

\* extra_env asked to push the image and to force safe mode: the probe ran
\* without either, and the persisted environment has both.
C29_Witness ==
    /\ ProbeCalled
    /\ state.present
    /\ config.extra_env = ProbeOnlyFlags
    /\ op.probe.opts["PushImage"] = FALSE
    /\ state.env_map[ENVBUILDER_PUSH_IMAGE] = strTrue
    /\ state.env_map[ENVBUILDER_FORCE_SAFE] = strTrue
    /\ ENVBUILDER_GET_CACHED_IMAGE \notin DOMAIN state.env_map

\* C30: Read removes a state without consulting the registry only if the
\* state was persisted by a missed probe. A state persisted with exists =
\* true is never dropped by Read before a registry fetch has been made, also
\* when builder_image is textually equal to cache_repo@digest of the image.
C30_FoundStateDroppedOnlyAfterFetch ==
    (op.name = "Read" /\ op.prior.exists /\ ~state.present) => op.fetch.kind # "none"

----------------------------------------------------------------------------
(* Properties of option resolution                                         *)

\* The number of diagnostics of this severity about this key.
DiagsAbout(ds, severity, key) ==
    Cardinality({i \in 1..Len(ds) : ds[i].severity = severity /\ ds[i].key = key})

\* The map without these keys, and the order without them.
Without(m, keys) == [k \in DOMAIN m \ keys |-> m[k]]
OrderWithout(order, keys) == SelectSeq(order, LAMBDA k : k \notin keys)

\* The names of the options extra_env may not override, each with the
\* field of the options and the configuration value it keeps.
Immutables ==
    { [name |-> WithEnvPrefix(<<"C","A","C","H","E","_","R","E","P","O">>),
       field |-> "CacheRepo", value |-> config.cache_repo],
      [name |-> WithEnvPrefix(<<"G","I","T","_","U","R","L">>),
       field |-> "GitURL", value |-> config.git_url] }
ImmutablesPresent == {m \in Immutables : m.name \in DOMAIN config.extra_env}

\* C10: for each immutable option name (ENVBUILDER_CACHE_REPO,
\* ENVBUILDER_GIT_URL) in extra_env, option resolution gives exactly one
\* warning and the override has no effect: the resolved options and the
\* env entries of those names keep the values of cache_repo and git_url.
C10_ImmutableOverrideIgnored ==
    (resolved.kind = "resolved" /\ ImmutablesPresent # {}) =>
        /\ \A m \in ImmutablesPresent :
              /\ DiagsAbout(resolved.diags, "warning", m.name) = 1
              /\ DiagsAbout(resolved.diags, "error", m.name) = 0
              /\ resolved.opts[m.field] = m.value
              /\ resolved.env_map[m.name] = m.value
              /\ \E i \in 1..Len(resolved.env) :
                    resolved.env[i] = m.name \o <<"=">> \o m.value
        /\ LET names == {m.name : m \in ImmutablesPresent}
               plain == Resolution([config EXCEPT !.extra_env = Without(@, names)],
                                   OrderWithout(resolved.order, names))
           IN  /\ resolved.opts = plain.opts
               /\ resolved.env_map = plain.env_map
               /\ resolved.env = plain.env

\* The extra_env entries that name, by its ENVBUILDER_ name or by its legacy
\* name, an option with a configuration attribute of its own: the key, the
\* field and kind of the option, the attribute. Then those of them whose
\* attribute is set explicitly in the configuration.
HasAttribute(field) == \E i \in 1..Len(Attributes) : Attributes[i].Field = field
Overridden ==
    { [name |-> k, field |-> OptionOf(k).Field, kind |-> OptionOf(k).Kind,
       attr |-> config[AttributeOf(OptionOf(k).Field).Attr]] :
          k \in {x \in DOMAIN config.extra_env :
                    x \in OptionEnvs /\ HasAttribute(OptionOf(x).Field)} }
ExplicitOverridden == {a \in Overridden : ~a.attr.isNull}

\* The typed setter of this kind of option can parse the text; the value it reads.
Parses(kind, s) ==
    CASE kind = "string" -> TRUE
      [] kind = "bool" -> s = <<>> \/ ParseBoolOK(s)
      [] kind = "int" -> ParseIntOK(s)
      [] kind = "string-array" -> ReadAsCSVOK(s)
ParsedAs(kind, s) ==
    CASE kind = "string" -> s
      [] kind = "bool" -> ParseBool(s)
      [] kind = "int" -> ParseInt(s)
      [] kind = "string-array" -> IF s = <<>> THEN <<>> ELSE ReadAsCSV(s)

\* C11: an extra_env entry naming a recognized option that is not immutable
\* and was set explicitly in the configuration is applied, the option taking
\* the value of extra_env, and gives exactly one warning; the warnings of
\* option resolution are as many as the extra_env keys that are immutable or
\* explicitly set.
C11_ExplicitOverrideWarns ==
    resolved.kind = "resolved" =>
        /\ \A a \in ExplicitOverridden :
              /\ DiagsAbout(resolved.diags, "warning", a.name) = 1
              /\ Parses(a.kind, config.extra_env[a.name]) =>
                    resolved.opts[a.field] = ParsedAs(a.kind, config.extra_env[a.name])
        /\ WarningsCount(resolved.diags) =
              Cardinality(ImmutablesPresent) + Cardinality(ExplicitOverridden)

\* Those of the overridden options whose extra_env value does not parse.
Unparsed == {a \in Overridden : ~Parses(a.kind, config.extra_env[a.name])}

\* C12: when an extra_env value cannot be parsed by the typed setter of the
\* option it names (boolean, integer or string list), an error naming the
\* key is given and the option keeps the value it had before the override,
\* also when that value was set explicitly in the configuration and when
\* the option is a list.
C12_ParseFailureKeepsPrior ==
    resolved.kind = "resolved" =>
        \A a \in Unparsed :
            /\ DiagsAbout(resolved.diags, "error", a.name) = 1
            /\ resolved.opts[a.field] = optionsFromAttributes(config)[a.field]

\* The extra_env keys that name an option other than the immutable ones, and
\* those of them whose value the option's setter cannot parse.
OverrideKeys ==
    {k \in DOMAIN config.extra_env :
        k \in OptionEnvs /\ k \notin {m.name : m \in Immutables}}
BadKeys == {k \in OverrideKeys : ~Parses(OptionOf(k).Kind, config.extra_env[k])}

\* The errors of the diagnostics that are about a key.
KeyErrors(ds) == {i \in 1..Len(ds) : ds[i].severity = "error" /\ ds[i].key # <<>>}

\* A resolution has the options and the number of errors of the one made.
SameOutcome(r) ==
    /\ r.opts = resolved.opts
    /\ ErrorsCount(r.diags) = ErrorsCount(resolved.diags)

\* C13: override processing does not stop at a bad key. For an extra_env
\* with k values that cannot be parsed there are exactly k errors, one for
\* each such key, and every other override of the map is applied, in
\* whatever order the keys of the map are visited.
C13_BadKeysDoNotStopOverrides ==
    resolved.kind = "resolved" =>
        /\ Cardinality(KeyErrors(resolved.diags)) = Cardinality(BadKeys)
        /\ \A k \in BadKeys : DiagsAbout(resolved.diags, "error", k) = 1
        /\ \A k \in OverrideKeys \ BadKeys :
              resolved.opts[OptionOf(k).Field] =
                  ParsedAs(OptionOf(k).Kind, config.extra_env[k])
        /\ \A o \in Orders(DOMAIN config.extra_env) :
              SameOutcome(optionsFromDataModel(config, o))

\* The list options that extra_env overrides with a text that parses.
ListOverrides ==
    {k \in OverrideKeys \ BadKeys : OptionOf(k).Kind = "string-array"}

\* C14: applying the overrides of a map a second time gives the options that
\* applying them once gave; after the override of a list option its value is
\* the list parsed from the override text, not the prior list with the
\* override appended.
C14_OverrideIdempotent ==
    resolved.kind = "resolved" =>
        /\ \A o \in Orders(DOMAIN config.extra_env) :
              overrideOptionsFromExtraEnv(resolved.opts, config.extra_env,
                                          providerOptsOf(config), o).opts = resolved.opts
        /\ \A k \in ListOverrides :
              resolved.opts[OptionOf(k).Field] = ParsedAs("string-array", config.extra_env[k])

\* The resolved options have both git ssh private key options.
BothSSHKeys ==
    /\ resolved.opts["GitSSHPrivateKeyPath"] # <<>>
    /\ resolved.opts["GitSSHPrivateKeyBase64"] # <<>>

\* The number of errors about the two git ssh private key options.
SSHKeyConflicts ==
    Cardinality({i \in 1..Len(resolved.diags) :
                    /\ resolved.diags[i].severity = "error"
                    /\ resolved.diags[i].summary =
                          "Cannot set more than one git ssh private key option"})

\* C15: whenever the resolved options, after the overrides, have both the
\* git ssh private key path and the git ssh private key base64 non-empty,
\* whether from the configuration, from extra_env or one from each, option
\* resolution gives exactly one error for the conflict.
C15_SSHKeyConflictIsOneError ==
    (resolved.kind = "resolved" /\ BothSSHKeys) => SSHKeyConflicts = 1

\* The path came from the configuration and the base64 key from extra_env.
C15_Witness ==
    /\ resolved.kind = "resolved" /\ BothSSHKeys
    /\ ~config.git_ssh_private_key_path.isNull
    /\ config.git_ssh_private_key_base64.isNull
    /\ ENVBUILDER_GIT_SSH_PRIVATE_KEY_BASE64 \in DOMAIN config.extra_env
    /\ ErrorsCount(resolved.diags) = 1

\* extra_env names the remote repo build mode option.
OverridesBuildMode == ENVBUILDER_REMOTE_REPO_BUILD_MODE \in DOMAIN config.extra_env

\* C16: when remote_repo_build_mode is absent from the configuration the
\* option is true before the overrides are processed and does not count as
\* set by the provider: an override of ENVBUILDER_REMOTE_REPO_BUILD_MODE in
\* extra_env is applied without the warning about overriding such a value.
C16_BuildModeDefaultNotProviderSet ==
    (resolved.kind = "resolved" /\ config.remote_repo_build_mode.isNull) =>
        /\ optionsFromAttributes(config)["RemoteRepoBuildMode"] = TRUE
        /\ ~OverridesBuildMode => resolved.opts["RemoteRepoBuildMode"] = TRUE
        /\ OverridesBuildMode =>
              /\ DiagsAbout(resolved.diags, "warning", ENVBUILDER_REMOTE_REPO_BUILD_MODE) = 0
              /\ resolved.opts["RemoteRepoBuildMode"] =
                    ParsedAs("bool", config.extra_env[ENVBUILDER_REMOTE_REPO_BUILD_MODE])

\* The default was overridden with false, and nothing warned.
C16_Witness ==
    /\ resolved.kind = "resolved" /\ config.remote_repo_build_mode.isNull
    /\ OverridesBuildMode
    /\ resolved.opts["RemoteRepoBuildMode"] = FALSE
    /\ resolved.diags = <<>>

----------------------------------------------------------------------------
(* Properties of the computed environment                                  *)

\* The key of a "key=value" entry: the text before its first "=".
KeyOf(pair) == SplitOn(pair, "=")[1]

\* C18: the env list of every computed environment is ordered by key: of any
\* two entries the one with the smaller key comes first, also when one key
\* is a proper prefix of the other or when keys hold characters that sort
\* before "=".
C18_EnvOrderedByKey ==
    resolved.kind = "resolved" =>
        \A i, j \in 1..Len(resolved.env) :
            i < j => StrLess(KeyOf(resolved.env[i]), KeyOf(resolved.env[j]))

\* The options whose name starts with ENVBUILDER_.
PrefixedOptions == {i \in 1..Len(CLI) : HasPrefix(CLI[i].Env, envbuilderOptionPrefix)}

\* The value is the zero value of its type: empty string, false, 0, empty list.
IsZeroValue(kind, v) ==
    CASE kind = "string" -> v = <<>>
      [] kind = "bool" -> v = FALSE
      [] kind = "int" -> v = Int64Of(0)
      [] kind = "string-array" -> v = <<>>

\* C19: the computed environment has an entry NAME=value for every option
\* named ENVBUILDER_... whose final value is not the zero value of its type
\* (empty string, false, 0, empty list) and none for an option whose final
\* value is the zero value; a list is rendered joined with commas.
C19_EnvHasNonZeroOptions ==
    resolved.kind = "resolved" =>
        \A i \in PrefixedOptions :
            IF IsZeroValue(CLI[i].Kind, resolved.opts[CLI[i].Field])
            THEN CLI[i].Env \notin DOMAIN resolved.env_map
            ELSE /\ CLI[i].Env \in DOMAIN resolved.env_map
                 /\ resolved.env_map[CLI[i].Env] =
                       ValueString(CLI[i].Kind, resolved.opts[CLI[i].Field])
                 /\ \E n \in 1..Len(resolved.env) :
                       resolved.env[n] = CLI[i].Env \o <<"=">>
                           \o ValueString(CLI[i].Kind, resolved.opts[CLI[i].Field])

\* The entry of extra_env with this key is in env_map and in env as it is.
PassedThrough(k) ==
    /\ k \in DOMAIN resolved.env_map
    /\ resolved.env_map[k] = config.extra_env[k]
    /\ \E n \in 1..Len(resolved.env) :
          resolved.env[n] = k \o <<"=">> \o config.extra_env[k]

\* C20, as stated: every extra_env entry whose key is not the name of a
\* recognized option is in the computed environment, env and env_map, with
\* its key and value unchanged, and wins over an option-derived entry of
\* the same key.
C20_UnrecognizedKeysPassThrough ==
    resolved.kind = "resolved" =>
        \A k \in DOMAIN config.extra_env : k \notin OptionEnvs => PassedThrough(k)

\* C20, amended: every extra_env entry whose key does not start with
\* ENVBUILDER_ is in the computed environment, env and env_map, with its key
\* and value unchanged, and wins over an option-derived entry of the same key.
C20_UnprefixedKeysPassThrough ==
    resolved.kind = "resolved" =>
        \A k \in DOMAIN config.extra_env :
            ~HasPrefix(k, envbuilderOptionPrefix)
                => PassedThrough(k)

\* FOO and the unprefixed option name CODER_AGENT_TOKEN were both passed through.
C20_Witness ==
    /\ resolved.kind = "resolved"
    /\ DOMAIN config.extra_env = {FOO, CODER_AGENT_TOKEN}
    /\ PassedThrough(FOO) /\ PassedThrough(CODER_AGENT_TOKEN)

\* C21: an extra_env entry whose key starts with ENVBUILDER_ is never copied
\* into the computed environment: every entry of the environment under such
\* a key is the entry of an option and carries the resolved value of that
\* option, so a key with the prefix that names no option is absent, while
\* the keys without the prefix are included.
C21_PrefixedKeysOnlyThroughOptions ==
    resolved.kind = "resolved" =>
        /\ \A k \in DOMAIN resolved.env_map :
              HasPrefix(k, envbuilderOptionPrefix) =>
                  /\ k \in OptionEnvs
                  /\ resolved.env_map[k] =
                        ValueString(OptionOf(k).Kind, resolved.opts[OptionOf(k).Field])
        /\ \A k \in DOMAIN config.extra_env :
              /\ (HasPrefix(k, envbuilderOptionPrefix) /\ k \notin OptionEnvs)
                    => k \notin DOMAIN resolved.env_map
              /\ ~HasPrefix(k, envbuilderOptionPrefix) => k \in DOMAIN resolved.env_map

\* ENVBUILDER_SOMETHING and FOO were given: only FOO is in the environment.
C21_Witness ==
    /\ resolved.kind = "resolved"
    /\ DOMAIN config.extra_env = {ENVBUILDER_SOMETHING, FOO}
    /\ FOO \in DOMAIN resolved.env_map
    /\ ENVBUILDER_SOMETHING \notin DOMAIN resolved.env_map

----------------------------------------------------------------------------
(* Properties of unrecognized keys                                         *)

\* The keys of extra_env that name no option.
UnknownKeys == DOMAIN config.extra_env \ OptionEnvs

\* The resolution of the configuration without the keys that name no option,
\* the other keys visited in the same order.
ResolutionWithoutUnknown ==
    optionsFromDataModel([config EXCEPT !.extra_env = Without(@, UnknownKeys)],
                         OrderWithout(resolved.order, UnknownKeys))

\* C22: an extra_env key that is not the name of a recognized option produces
\* no diagnostic and leaves every option of the resolved option set unchanged:
\* the options and the diagnostics are those of the same configuration
\* without the key.
C22_UnknownKeysIgnored ==
    resolved.kind = "resolved" =>
        /\ \A k \in UnknownKeys : \A i \in 1..Len(resolved.diags) : resolved.diags[i].key # k
        /\ resolved.opts = ResolutionWithoutUnknown.opts
        /\ resolved.diags = ResolutionWithoutUnknown.diags

\* A key that names no option was visited before an override that was applied.
C22_Witness ==
    /\ resolved.kind = "resolved"
    /\ Len(resolved.order) = 2
    /\ resolved.order[1] \in UnknownKeys
    /\ resolved.order[2] \in OverrideKeys \ BadKeys

----------------------------------------------------------------------------
(* Properties of concurrent passes                                         *)

\* No pass is running: each has returned or was never started.
AllReturned == \A p \in Passes : pass[p].pc \in {"idle", "returned"}

\* C23: when several Create passes run concurrently in one process, after
\* all of them have returned the process-wide kaniko directory setting has
\* the value it had before any of them started.
C23_KanikoDirRestored == AllReturned => KanikoDir = DefaultKanikoDir

\* C24: throughout the external probe call of a Create pass, the process-wide
\* kaniko directory setting is that pass's own temporary kaniko directory,
\* and that directory exists, whatever other passes do.
C24_KanikoDirOwnDuringProbe ==
    \A p \in Passes :
        pass[p].pc = "probe" => KanikoDir = tmpKanikoDir(p) /\ tmpKanikoDir(p) \in dirs

\* Nothing that pass p created is left on the file system.
Removed(p) == \A d \in dirs : d.pass # p

\* C25: every temporary directory created for the cache probe of a pass has
\* been removed when the probing function returns, on every exit path:
\* failure to create a directory, failure to extract the builder binary,
\* probe error and probe success.
C25_TmpDirRemovedOnReturn ==
    \A p \in Passes : pass[p].pc = "returned" => Removed(p)

\* C28: every blocking operation of a pass (the registry fetch of Read, the
\* fetch of the builder image and the reads of its layers during extraction,
\* and the external probe) aborts once the context is cancelled, so the pass
\* returns, and its temporary directory is removed.
C28_CancelAbortsBlocking ==
    \A p \in Passes :
        (ctxDone /\ pass[p].pc \in Blocking) ~> (pass[p].pc = "returned" /\ Removed(p))

----------------------------------------------------------------------------
(* Properties of the image scan                                            *)

\* The entries of layer i of the scanned image that are a regular file at
\* the target path, and the layers that have one.
TargetsIn(i) ==
    {j \in 1..Len(scan.image[i].entries) :
        /\ scan.image[i].entries[j].typeflag = TypeReg
        /\ Clean(scan.image[i].entries[j].name) = needle}
LayersWithTarget == {i \in 1..Len(scan.image) : TargetsIn(i) # {}}

\* The largest and the smallest of a set of numbers that is not empty.
Newest(S) == CHOOSE i \in S : \A x \in S : x <= i
First(S) == CHOOSE j \in S : \A x \in S : j <= x

\* C26: the scan visits the layers strictly from the newest to the oldest
\* and returns at the first regular-file entry whose cleaned path is the
\* target: a file that has been written is the first such entry of the
\* newest layer that has one, and no layer older than that layer is read.
C26_NewestLayerFirst ==
    scan.kind = "scan" =>
        /\ \A n \in 1..Len(scan.read) : scan.read[n] = Len(scan.image) - n + 1
        /\ LayersWithTarget # {} =>
              \A n \in 1..Len(scan.read) : scan.read[n] >= Newest(LayersWithTarget)
        /\ scan.dest.exists =>
              /\ LayersWithTarget # {}
              /\ scan.dest.layer = Newest(LayersWithTarget)
              /\ scan.dest.entry = First(TargetsIn(Newest(LayersWithTarget)))
        /\ scan.result = "nil" => scan.dest.exists /\ scan.dest.complete

\* Both layers of an image hold the target: the copy of the newer layer was
\* extracted and the older layer was not read.
C26_Witness ==
    /\ scan.kind = "scan"
    /\ LayersWithTarget = {1, 2}
    /\ scan.result = "nil"
    /\ scan.dest.layer = 2
    /\ scan.read = <<2>>

\* The image was fetched, and every layer of it can be read to its end.
Readable ==
    /\ scan.result \notin {"check remote image", "get image layers"}
    /\ \A i \in 1..Len(scan.image) :
          /\ ~scan.image[i].broken
          /\ \A j \in 1..Len(scan.image[i].entries) :
                scan.image[i].entries[j].typeflag # "corrupt"

\* C27: if no layer of the image holds a regular file at the target path,
\* entries of another type at that path not counting, the scan creates no
\* destination file, and when the image can be read it returns the error
\* that wraps os.ErrNotExist.
C27_NotFound ==
    (scan.kind = "scan" /\ LayersWithTarget = {}) =>
        /\ scan.dest = NoFile
        /\ (scan.pc = "done" /\ Readable) => scan.result = "os.ErrNotExist"
        /\ scan.result \notin {"nil", "create parent directories",
                                "create dest file for writing",
                                "copy dest file from image", "close dest file",
                                "chmod file"}

\* An image with a symbolic link at the target path and with a regular file
\* at the rooted path was scanned to its end.
C27_Witness ==
    /\ scan.kind = "scan"
    /\ Len(scan.image) = 2
    /\ scan.image[1].entries = <<Header(needle, TypeSymlink)>>
    /\ scan.image[2].entries = <<Header(MagicBinaryLocation, TypeReg)>>
    /\ scan.pc = "done"
    /\ scan.result = "os.ErrNotExist"
    /\ scan.dest = NoFile

====
